---- MODULE Spec2Model ----
(***************************************************************************)
(* A model of deployr: the recipe parser (parser.Parse), the run-command   *)
(* flow (runCmd.Run) and the evaluator (evaluator.Run, copyFiles,          *)
(* copyFile, expandString, ConnectTo).                                     *)
(*                                                                         *)
(* Strings are sequences of one-character strings, so that splitting and   *)
(* ${name} expansion are computed character by character.                  *)
(***************************************************************************)
EXTENDS Integers, Sequences, FiniteSets, TLC

VARIABLES
    tokens,       \* the token source: the tokens before the final EOF
    offset,       \* number of NextToken calls made on the token source
    statements,   \* the list Parse returned
    parseErr,     \* the error Parse returned, or Nil
    pc,           \* position of runCmd.Run / Evaluator.Run
    flags,        \* runCmd fields: target, nop, identity, vars
    Program,      \* Evaluator.Program
    Identity,     \* Evaluator.Identity
    NOP,          \* Evaluator.NOP
    Variables,    \* Evaluator.Variables
    ROVariables,  \* Evaluator.ROVariables
    Connection,   \* Evaluator.Connection: Nil or an open client
    Changed,      \* Evaluator.Changed
    ip,           \* index of the next statement of Evaluator.Run's loop
    sudoPassword, \* the local sudoPassword of Evaluator.Run
    runErr,       \* the error Evaluator.Run / ConnectTo returned, or Nil
    calls,        \* every call made on the remote transport, in order
    remote,       \* the remote host's files: path -> fingerprint or NoFile
    scratch,      \* the temporary files that exist locally
    prompts,      \* number of times the sudo password was prompted for
    printed,      \* the failure messages written to the console, in order
    characters,   \* Lexer.characters: the recipe's text
    position,     \* Lexer.position
    readPosition, \* Lexer.readPosition
    ch            \* Lexer.ch

vars == <<tokens, offset, statements, parseErr, pc, flags, Program, Identity,
          NOP, Variables, ROVariables, Connection, Changed, ip, sudoPassword,
          runErr, calls, remote, scratch, prompts, printed,
          characters, position, readPosition, ch>>

lexVars == <<characters, position, readPosition, ch>>
parserVars == <<tokens, offset, statements, parseErr>>
evalVars == <<Program, Identity, NOP, Variables, ROVariables, Connection,
              Changed, ip, sudoPassword, runErr>>
envVars == <<calls, remote, scratch, prompts, printed>>

Nil == "nil"
\* The nil error of the parser, and the nil *simplessh.Client.
NilErr == [msg |-> Nil]
NilConn == [nil |-> TRUE]

(***************************************************************************)
(* Bounds of the model.                                                    *)
(***************************************************************************)
MaxTokens == 4
MaxLines == 3
MaxSudoTokens == 5
MaxPieces == 5
MaxCopyLines == 2

(***************************************************************************)
(* Tokens and statements.                                                  *)
(***************************************************************************)
Token(type, literal) == [Type |-> type, Literal |-> literal]

EOF == "EOF"
IDENT == "IDENT"
ILLEGAL == "ILLEGAL"
STRINGT == "STRING"
COPYFILE == "CopyFile"
COPYTEMPLATE == "CopyTemplate"
DEPLOYTO == "DeployTo"
IFCHANGED == "IfChanged"
RUN == "Run"
SET == "Set"
SUDO == "Sudo"

keywords == {COPYFILE, COPYTEMPLATE, DEPLOYTO, IFCHANGED, RUN, SET, SUDO}

Statement(tok, sudo, args) == [Token |-> tok, Sudo |-> sudo, Arguments |-> args]

\* The token the source returns on its n-th call: the lexer returns EOF with
\* an empty literal at the end of the input, and on every later call.
NextToken(toks, n) == IF n <= Len(toks) THEN toks[n] ELSE Token(EOF, <<>>)

(***************************************************************************)
(* parser.GetArguments: pulls one token per expected type and stops at the *)
(* first one whose type differs.  off is the number of tokens pulled so    *)
(* far; the result holds the arguments, the error and the new offset.      *)
(***************************************************************************)
RECURSIVE GetArgumentsFrom(_, _, _, _, _)
GetArgumentsFrom(toks, off, expected, i, ret) ==
    IF i > Len(expected)
    THEN [ret |-> ret, err |-> NilErr, off |-> off]
    ELSE LET next == NextToken(toks, off + 1)
         IN  IF next.Type # expected[i]
             THEN [ret |-> <<>>,
                   err |-> [msg |-> "expected", want |-> expected[i],
                            argument |-> i, got |-> next.Type],
                   off |-> off + 1]
             ELSE GetArgumentsFrom(toks, off + 1, expected, i + 1, Append(ret, next))

GetArguments_ReportsLast(toks, off, expected) ==
    LET r == GetArgumentsFrom(toks, off, expected, 1, <<>>)
    IN  IF r.err = NilErr THEN r
        ELSE [r EXCEPT !.err.argument = Len(expected)]

GetArguments_PullsAll(toks, off, expected) ==
    LET r == GetArgumentsFrom(toks, off, expected, 1, <<>>)
    IN  IF r.err = NilErr THEN r
        ELSE [r EXCEPT !.off = off + Len(expected)]

GetArguments(toks, off, expected) == GetArgumentsFrom(toks, off, expected, 1, <<>>)

Expected_SetTakesTwoIdents(type) ==
    CASE type = COPYTEMPLATE -> <<IDENT, IDENT>>
      [] type = COPYFILE     -> <<IDENT, IDENT>>
      [] type = DEPLOYTO     -> <<IDENT>>
      [] type = IFCHANGED    -> <<STRINGT>>
      [] type = RUN          -> <<STRINGT>>
      [] type = SET          -> <<IDENT, IDENT>>

\* The argument types each action requires.
Expected(type) ==
    CASE type = COPYTEMPLATE -> <<IDENT, IDENT>>
      [] type = COPYFILE     -> <<IDENT, IDENT>>
      [] type = DEPLOYTO     -> <<IDENT>>
      [] type = IFCHANGED    -> <<STRINGT>>
      [] type = RUN          -> <<STRINGT>>
      [] type = SET          -> <<IDENT, STRINGT>>

TakesSudo_OnlyRun(type) == type = RUN

\* What Parse does with a pending sudo flag when it stores a statement.
TakesSudo(type) == type \in {IFCHANGED, RUN}

\* What Parse returns as its list when it fails in GetArguments or on an
\* ILLEGAL, IDENT or STRING token in action position.
ListOnError(result) == result

(***************************************************************************)
(* parser.Parse: the loop over the token source.  result is the list built *)
(* so far, sudo the pending flag, off the number of tokens pulled.         *)
(***************************************************************************)
RECURSIVE ParseLoop(_, _, _, _)
ParseLoop(toks, off, result, sudo) ==
    LET tok == NextToken(toks, off + 1)
        o1 == off + 1
    IN  CASE tok.Type = ILLEGAL ->
               [result |-> ListOnError(result),
                err |-> [msg |-> "error received from the lexer", literal |-> tok.Literal],
                off |-> o1]
          [] tok.Type = IDENT ->
               [result |-> ListOnError(result),
                err |-> [msg |-> "found unexpected identifier", literal |-> tok.Literal],
                off |-> o1]
          [] tok.Type = STRINGT ->
               [result |-> ListOnError(result),
                err |-> [msg |-> "found unexpected string", literal |-> tok.Literal],
                off |-> o1]
          [] tok.Type \in {COPYTEMPLATE, COPYFILE, DEPLOYTO, IFCHANGED, RUN, SET} ->
               LET a == GetArguments(toks, o1, Expected(tok.Type))
               IN  IF a.err # NilErr
                   THEN [result |-> ListOnError(result), err |-> a.err, off |-> a.off]
                   ELSE IF TakesSudo(tok.Type)
                        THEN ParseLoop(toks, a.off,
                                       Append(result, Statement(tok, sudo, a.ret)), FALSE)
                        ELSE ParseLoop(toks, a.off,
                                       Append(result, Statement(tok, FALSE, a.ret)), sudo)
          [] tok.Type = SUDO -> ParseLoop(toks, o1, result, TRUE)
          [] tok.Type = EOF -> [result |-> result, err |-> NilErr, off |-> o1]
          [] OTHER ->
               [result |-> <<>>,
                err |-> [msg |-> "unhandled statement", literal |-> tok],
                off |-> o1]

Parse_AcceptsBareString(toks) ==
    LET r == ParseLoop(toks, 0, <<>>, FALSE)
    IN  IF r.err.msg = "found unexpected string" THEN [r EXCEPT !.err = NilErr]
        ELSE r

Parse_NewestFirst(toks) ==
    LET r == ParseLoop(toks, 0, <<>>, FALSE)
        n == Len(r.result)
    IN  [r EXCEPT !.result = [i \in 1..n |-> r.result[n + 1 - i]]]

Parse(toks) == ParseLoop(toks, 0, <<>>, FALSE)

(***************************************************************************)
(* Strings.                                                                *)
(***************************************************************************)
RECURSIVE IndexFrom(_, _, _)
\* The first position >= i at which character c stands in s, or 0.
IndexFrom(s, c, i) ==
    IF i > Len(s) THEN 0
    ELSE IF s[i] = c THEN i ELSE IndexFrom(s, c, i + 1)

Contains(s, c) == IndexFrom(s, c, 1) # 0

\* strings.Split(s, c)[0] and strings.Split(s, c)[1].
Field0(s, c) ==
    LET j == IndexFrom(s, c, 1)
    IN  IF j = 0 THEN s ELSE SubSeq(s, 1, j - 1)
Field1(s, c) ==
    LET j == IndexFrom(s, c, 1)
        k == IndexFrom(s, c, j + 1)
    IN  IF k = 0 THEN SubSeq(s, j + 1, Len(s)) ELSE SubSeq(s, j + 1, k - 1)

HasSuffix(s, c) == Len(s) > 0 /\ s[Len(s)] = c

\* A Go map read: the zero value (the empty string) for a missing key.
MapGet(m, k) == IF k \in DOMAIN m THEN m[k] ELSE <<>>
MapSet(m, k, v) == [x \in DOMAIN m \cup {k} |-> IF x = k THEN v ELSE m[x]]
EmptyMap == [x \in {} |-> <<>>]

(***************************************************************************)
(* lexer.Lexer.  A lexer is the record of its fields position,             *)
(* readPosition and ch, over the text cs; positions count from 0 as in the *)
(* source, and NUL is rune(0), the character read past the end.            *)
(***************************************************************************)
NUL == "NUL"

\* read one forward character
readChar(cs, l) ==
    [position |-> l.readPosition,
     readPosition |-> l.readPosition + 1,
     ch |-> IF l.readPosition >= Len(cs) THEN NUL ELSE cs[l.readPosition + 1]]

\* lexer.New: the zero Lexer, then one readChar.
New(cs) == readChar(cs, [position |-> 0, readPosition |-> 0, ch |-> NUL])

peekChar(cs, l) == IF l.readPosition >= Len(cs) THEN NUL ELSE cs[l.readPosition + 1]

isWhitespace(c) == c \in {" ", "\t", "\n", "\r"}
isEmpty(c) == c = NUL
isIdentifier(c) == ~isWhitespace(c) /\ ~isEmpty(c)

RECURSIVE skipWhitespace(_, _)
skipWhitespace(cs, l) ==
    IF isWhitespace(l.ch) THEN skipWhitespace(cs, readChar(cs, l)) ELSE l

RECURSIVE skipLine(_, _)
\* skipComment's loop: up to the newline or the end of the text.
skipLine(cs, l) ==
    IF l.ch # "\n" /\ l.ch # NUL THEN skipLine(cs, readChar(cs, l)) ELSE l

skipComment_ToEnd(cs, l) ==
    [position |-> Len(cs), readPosition |-> Len(cs) + 1, ch |-> NUL]

skipComment(cs, l) == skipWhitespace(cs, skipLine(cs, l))

\* token.keywords and token.LookupIdentifier
keywordTable ==
    (<<"C", "o", "p", "y", "F", "i", "l", "e">> :> COPYFILE) @@
    (<<"C", "o", "p", "y", "T", "e", "m", "p", "l", "a", "t", "e">> :> COPYTEMPLATE) @@
    (<<"D", "e", "p", "l", "o", "y", "T", "o">> :> DEPLOYTO) @@
    (<<"I", "f", "C", "h", "a", "n", "g", "e", "d">> :> IFCHANGED) @@
    (<<"R", "u", "n">> :> RUN) @@
    (<<"S", "e", "t">> :> SET) @@
    (<<"S", "u", "d", "o">> :> SUDO)

LookupIdentifier_IgnoresCase(identifier) ==
    IF identifier \in DOMAIN keywordTable THEN keywordTable[identifier]
    ELSE IF identifier = <<"r", "u", "n">> THEN RUN
    ELSE IDENT

LookupIdentifier_SudoIsNoKeyword(identifier) ==
    IF identifier = <<"S", "u", "d", "o">> THEN IDENT
    ELSE IF identifier \in DOMAIN keywordTable THEN keywordTable[identifier]
    ELSE IDENT

LookupIdentifier(identifier) ==
    IF identifier \in DOMAIN keywordTable THEN keywordTable[identifier] ELSE IDENT

RECURSIVE readIdentifierFrom(_, _)
readIdentifierFrom(cs, l) ==
    IF isIdentifier(l.ch) THEN readIdentifierFrom(cs, readChar(cs, l)) ELSE l

\* The identifier read, and the lexer after it.
readIdentifier(cs, l) ==
    LET after == readIdentifierFrom(cs, l)
    IN  [literal |-> SubSeq(cs, l.position + 1, after.position), l |-> after]

Unescape_KeepsLetter(c) ==
    CASE c = "\"" -> "\""
      [] c = "\\" -> "\\"
      [] OTHER -> c

\* readString's handling of the character after a backslash.
Unescape(c) ==
    CASE c = "n" -> "\n"
      [] c = "r" -> "\r"
      [] c = "t" -> "\t"
      [] c = "\"" -> "\""
      [] c = "\\" -> "\\"
      [] OTHER -> c

Unterminated ==
    <<"u", "n", "t", "e", "r", "m", "i", "n", "a", "t", "e", "d", " ",
      "s", "t", "r", "i", "n", "g">>

RECURSIVE readStringFrom(_, _, _)
\* readString's loop; out is the text collected so far.
readStringFrom(cs, l, out) ==
    LET l1 == readChar(cs, l)
    IN  IF l1.ch = "\"" THEN [out |-> out, err |-> Nil, l |-> l1]
        ELSE IF l1.ch = NUL THEN [out |-> <<>>, err |-> "unterminated string", l |-> l1]
        ELSE IF l1.ch = "\\"
        THEN IF peekChar(cs, l1) = "\n"
             THEN readStringFrom(cs, readChar(cs, l1), out)
             ELSE LET l2 == readChar(cs, l1)
                  IN  readStringFrom(cs, l2, Append(out, Unescape(l2.ch)))
        ELSE readStringFrom(cs, l1, Append(out, l1.ch))

readString_ClosesAtEnd(cs, l) == [readStringFrom(cs, l, <<>>) EXCEPT !.err = Nil]

readString(cs, l) == readStringFrom(cs, l, <<>>)

RECURSIVE LexerNextToken(_, _)
\* Lexer.NextToken: the token read, and the lexer after it.
LexerNextToken(cs, l0) ==
    LET l == skipWhitespace(cs, l0)
    IN  IF l.ch = "#" /\ peekChar(cs, l) = "!" /\ l.position = 0
        THEN LexerNextToken(cs, skipComment(cs, l))
        ELSE IF l.ch = "#"
        THEN LexerNextToken(cs, skipComment(cs, l))
        ELSE IF l.ch = "\""
        THEN LET s == readString(cs, l)
             IN  [tok |-> IF s.err = Nil THEN Token(STRINGT, s.out)
                          ELSE Token(ILLEGAL, Unterminated),
                  l |-> readChar(cs, s.l)]
        ELSE IF l.ch = NUL
        THEN [tok |-> Token(EOF, <<>>), l |-> readChar(cs, l)]
        ELSE LET r == readIdentifier(cs, l)
             IN  [tok |-> Token(LookupIdentifier(r.literal), r.literal), l |-> r.l]

\* The lexer of a run that was started on a token source directly.
NoInput ==
    /\ characters = <<>>
    /\ position = 0
    /\ readPosition = 1
    /\ ch = NUL

(***************************************************************************)
(* evaluator.expandString: every leftmost match of \$\{([^\}]+)\} is       *)
(* replaced by the value looked up for the name between the braces; the    *)
(* replacement text is not scanned again.                                  *)
(***************************************************************************)
ExpandLookup(name, ro, rw) ==
    IF Len(MapGet(ro, name)) > 0 THEN MapGet(ro, name)
    ELSE IF Len(MapGet(rw, name)) > 0 THEN MapGet(rw, name)
    ELSE <<"$", "{">> \o name \o <<"}">>

RECURSIVE ExpandFrom(_, _, _, _)
ExpandFrom(s, i, ro, rw) ==
    IF i > Len(s) THEN <<>>
    ELSE LET j == IndexFrom(s, "}", i + 2)
         IN  IF s[i] = "$" /\ i + 1 <= Len(s) /\ s[i + 1] = "{" /\ j >= i + 3
             THEN ExpandLookup(SubSeq(s, i + 2, j - 1), ro, rw) \o ExpandFrom(s, j + 1, ro, rw)
             ELSE <<s[i]>> \o ExpandFrom(s, i + 1, ro, rw)

expandString(in, ro, rw) == ExpandFrom(in, 1, ro, rw)

(***************************************************************************)
(* The local and the remote file system, and the transport.                *)
(***************************************************************************)
NoFile == "nofile"

\* util.HashFile of a file with the given content.
HashFile(content) == <<"sha1", content>>

\* The local files: path -> kind and content.
LocalFiles ==
    (<<"f">> :> [kind |-> "file", content |-> <<"f", "0">>]) @@
    (<<"g", "/", "a">> :> [kind |-> "file", content |-> <<"a", "0">>]) @@
    (<<"g", "/", "b">> :> [kind |-> "file", content |-> <<"b", "0">>]) @@
    (<<"g", "/", "s">> :> [kind |-> "dir", content |-> <<>>])

\* The local paths in the order filepath.Glob returns them (sorted).
LocalPaths == << <<"f">>, <<"g", "/", "a">>, <<"g", "/", "b">>, <<"g", "/", "s">> >>

\* Does the path match the pattern?  A pattern is a path, or a directory
\* followed by "*", which matches the entries of that directory.
Matches(pattern, p) ==
    IF HasSuffix(pattern, "*")
    THEN /\ Len(p) >= Len(pattern)
         /\ SubSeq(p, 1, Len(pattern) - 1) = SubSeq(pattern, 1, Len(pattern) - 1)
         /\ ~Contains(SubSeq(p, Len(pattern), Len(p)), "/")
    ELSE p = pattern

\* filepath.Glob(pattern): the existing paths the pattern matches.
Glob(pattern) == SelectSeq(LocalPaths, LAMBDA p : Matches(pattern, p))

\* path.Base(file): the text after the last separator.
RECURSIVE Base(_)
Base(file) ==
    LET j == IndexFrom(file, "/", 1)
    IN  IF j = 0 THEN file ELSE Base(SubSeq(file, j + 1, Len(file)))

\* The text a template renders to: the file's text with the value of the
\* variable it reads through get.
TemplateGet(name, ro, rw) ==
    IF Len(MapGet(ro, name)) > 0 THEN MapGet(ro, name) ELSE MapGet(rw, name)
Render(content, ro, rw) == content \o TemplateGet(<<"K">>, ro, rw)

RemoteGet(r, path) == IF path \in DOMAIN r THEN r[path] ELSE NoFile

\* What the environment does during one copyFile call: whether the local
\* file can be hashed, whether the download is served (found or not found,
\* as the remote host has it) or fails otherwise, whether the downloaded
\* copy can be hashed, and whether the upload succeeds.
Outcome(localOk, served, hashOk, upOk) ==
    [localOk |-> localOk, served |-> served, hashOk |-> hashOk, upOk |-> upOk]
Smooth == Outcome(TRUE, TRUE, TRUE, TRUE)
Outcomes ==
    { Smooth,
      Outcome(FALSE, TRUE, TRUE, TRUE),
      Outcome(TRUE, FALSE, TRUE, TRUE),
      Outcome(TRUE, TRUE, FALSE, TRUE),
      Outcome(TRUE, TRUE, TRUE, FALSE) }

\* The error Connection.Download returns.
DownloadResult(r, path, o) ==
    IF ~o.served THEN "failed"
    ELSE IF RemoteGet(r, path) = NoFile THEN "not exist" ELSE "ok"

NeedsUpload_OnAnyFailure(dl, hashLocal, hashRemote) ==
    IF dl = "ok" THEN hashRemote # hashLocal
    ELSE TRUE

NeedsUpload_Always(dl, hashLocal, hashRemote) ==
    IF dl = "ok" THEN TRUE
    ELSE dl = "not exist"

\* copyFile's decision after a download: does the file need replacing?
NeedsUpload(dl, hashLocal, hashRemote) ==
    IF dl = "ok" THEN hashRemote # hashLocal
    ELSE dl = "not exist"

(***************************************************************************)
(* evaluator.copyFile.  env holds the calls made so far, the remote files  *)
(* and the scratch files; the result holds the new env, the value returned *)
(* and whether the process exited (os.Exit(11)).                           *)
(***************************************************************************)
copyFile(local, remoteP, expand, ro, rw, env, o) ==
    LET content == IF expand THEN Render(LocalFiles[local].content, ro, rw)
                   ELSE LocalFiles[local].content
        tmpl == IF expand THEN {<<"tmpl", Len(env.calls)>>} ELSE {}
        example == <<"example", Len(env.calls)>>
        hashLocal == HashFile(content)
        dl == DownloadResult(env.remote, remoteP, o)
        down == Append(env.calls, [op |-> "download", path |-> remoteP, res |-> dl])
        changed == NeedsUpload(dl, hashLocal, RemoteGet(env.remote, remoteP))
        up == Append(down, [op |-> "upload", path |-> remoteP, hash |-> hashLocal,
                            res |-> IF o.upOk THEN "ok" ELSE "failed"])
        \* the scratch files after a return: the deferred os.Remove of the
        \* downloaded copy and the os.Remove(local) of the rendered template
        removed == ((env.scratch \cup tmpl) \cup {example}) \ ({example} \cup tmpl)
    IN  IF ~o.localOk
        THEN \* os.Exit(11), before the file for the download is created: the
             \* rendered template is not removed
             [changed |-> FALSE, exit |-> TRUE,
              env |-> [env EXCEPT !.scratch = @ \cup tmpl,
                                  !.printed = Append(@, "Failed to hash local file")]]
        ELSE IF dl = "ok" /\ ~o.hashOk
        THEN [changed |-> FALSE, exit |-> FALSE,
              env |-> [env EXCEPT !.calls = down,
                                  !.scratch = removed,
                                  !.printed = Append(@, "Failed to hash remote file")]]
        ELSE IF ~changed
        THEN [changed |-> FALSE, exit |-> FALSE,
              env |-> [env EXCEPT !.calls = down, !.scratch = removed]]
        ELSE IF ~o.upOk
        THEN [changed |-> TRUE, exit |-> FALSE,
              env |-> [env EXCEPT !.calls = up,
                                  !.scratch = removed,
                                  !.printed = Append(@, "Failed to upload")]]
        ELSE [changed |-> TRUE, exit |-> FALSE,
              env |-> [env EXCEPT !.calls = up,
                                  !.scratch = removed,
                                  !.remote = MapSet(@, remoteP, hashLocal)]]

(***************************************************************************)
(* evaluator.copyFiles: the loop over the files a pattern matches.  os is  *)
(* the environment's outcome for each file, in order.                      *)
(***************************************************************************)
RECURSIVE OutcomeSeqs(_, _)
\* What the environment can do during one copyFiles call: an outcome for
\* each file from the i-th on; a directory is skipped, nothing happens to it.
OutcomeSeqs(files, i) ==
    IF i > Len(files) THEN { <<>> }
    ELSE { <<o>> \o rest :
             o \in IF LocalFiles[files[i]].kind = "dir" THEN {Smooth} ELSE Outcomes,
             rest \in OutcomeSeqs(files, i + 1) }

AnyChanged_LastWins(changed, c) == c

\* copyFiles' "if c { changed = c }" after each file.
AnyChanged(changed, c) == IF c THEN c ELSE changed

RECURSIVE copyEach(_, _, _, _, _, _, _, _, _)
copyEach(files, i, destination, expand, ro, rw, env, os, changed) ==
    IF i > Len(files)
    THEN [changed |-> changed, exit |-> FALSE, env |-> env]
    ELSE IF LocalFiles[files[i]].kind = "dir"
    THEN copyEach(files, i + 1, destination, expand, ro, rw, env, os, changed)
    ELSE LET c == copyFile(files[i], destination \o Base(files[i]), expand,
                           ro, rw, env, os[i])
         IN  IF c.exit THEN c
             ELSE copyEach(files, i + 1, destination, expand, ro, rw, c.env, os,
                           AnyChanged(changed, c.changed))

copyFiles(pattern0, destination0, expand, ro, rw, env, os) ==
    LET pattern == IF HasSuffix(pattern0, "/") THEN pattern0 \o <<"*">> ELSE pattern0
        files == Glob(pattern)
        destination == IF HasSuffix(destination0, "/") THEN destination0
                       ELSE destination0 \o <<"/">>
    IN  IF Len(files) < 1
        THEN [changed |-> FALSE, exit |-> FALSE,
              env |-> [env EXCEPT !.printed = Append(@, "Failed to find file(s)")]]
        ELSE IF Len(files) = 1 /\ files[1] = pattern
        THEN copyFile(pattern, destination0, expand, ro, rw, env, os[1])
        ELSE copyEach(files, 1, destination, expand, ro, rw, env, os, FALSE)

(***************************************************************************)
(* evaluator.ConnectTo.  agent is util.HasSSHAgent(), ok whether the       *)
(* connect call succeeds.  The result holds the new Variables, Connection  *)
(* and calls, and the error returned.                                      *)
(***************************************************************************)
DefaultUser == <<"r", "o", "o", "t">>
DefaultPort == <<"2", "2">>

TargetUser_NoDefault(target) == Field0(target, "@")

TargetUser(target) == IF Contains(target, "@") THEN Field0(target, "@") ELSE DefaultUser
TargetHostPort(target) == IF Contains(target, "@") THEN Field1(target, "@") ELSE target
TargetHost(target) ==
    LET host == TargetHostPort(target)
    IN  IF Contains(host, ":") THEN Field0(host, ":") ELSE host
TargetPort(target) ==
    LET host == TargetHostPort(target)
    IN  IF Contains(host, ":") THEN Field1(host, ":") ELSE DefaultPort

AlreadyConnected_Never(conn) == FALSE

\* ConnectTo's first test: is the request ignored?
AlreadyConnected(conn) == conn # NilConn

ConnectTo(target, conn, rw, identity, log, agent, ok) ==
    IF AlreadyConnected(conn)
    THEN [Connection |-> conn, Variables |-> rw, calls |-> log, err |-> Nil,
          printed |-> <<"Ignoring request to change target mid-run!">>]
    ELSE LET host == TargetHost(target)
             port == TargetPort(target)
             user == TargetUser(target)
             v == MapSet(MapSet(MapSet(rw, <<"h", "o", "s", "t">>, host),
                                <<"p", "o", "r", "t">>, port),
                         <<"u", "s", "e", "r">>, user)
             call == [op |-> "connect", destination |-> host \o <<":">> \o port,
                      user |-> user,
                      auth |-> IF agent THEN <<"agent">> ELSE <<"keyfile", identity>>,
                      res |-> IF ok THEN "ok" ELSE "failed"]
         IN  [Connection |-> IF ok THEN [destination |-> host \o <<":">> \o port,
                                         user |-> user]
                             ELSE NilConn,
              Variables |-> v,
              calls |-> Append(log, call),
              err |-> IF ok THEN Nil ELSE "connect failed",
              printed |-> <<>>]

(***************************************************************************)
(* The recipes and flags the run command is started with.                  *)
(***************************************************************************)
Lines ==
    { << Token(DEPLOYTO, <<"D", "e", "p", "l", "o", "y", "T", "o">>), Token(IDENT, <<"u", "@", "h">>) >>,
      << Token(SET, <<"S", "e", "t">>), Token(IDENT, <<"K">>), Token(STRINGT, <<"V">>) >>,
      << Token(RUN, <<"R", "u", "n">>), Token(STRINGT, <<"e", "$", "{", "K", "}">>) >>,
      << Token(IFCHANGED, <<"I", "f", "C", "h", "a", "n", "g", "e", "d">>), Token(STRINGT, <<"c">>) >>,
      << Token(COPYFILE, <<"C", "o", "p", "y", "F", "i", "l", "e">>), Token(IDENT, <<"f">>), Token(IDENT, <<"d">>) >>,
      << Token(COPYTEMPLATE, <<"C", "o", "p", "y", "T", "e", "m", "p", "l", "a", "t", "e">>), Token(IDENT, <<"f">>), Token(IDENT, <<"d">>) >>,
      << Token(SUDO, <<"S", "u", "d", "o">>) >>,
      << Token(RUN, <<"R", "u", "n">>), Token(IDENT, <<"x">>) >>,
      << Token(ILLEGAL, <<"u", "n", "t">>) >> }

RECURSIVE Recipes(_)
\* The token streams of at most n lines.
Recipes(n) ==
    IF n = 0 THEN { <<>> }
    ELSE LET shorter == Recipes(n - 1)
         IN  shorter \cup { r \o l : r \in shorter, l \in Lines }

Targets == { <<>>, <<"u", "@", "h">> }
VarFlags == { <<>>, << <<"K", "=", "R">> >> }
RemoteStates ==
    { EmptyMap,
      (<<"d">> :> HashFile(<<"f", "0">>)),
      (<<"d">> :> HashFile(<<"o">>)) }

(***************************************************************************)
(* cmd_run: the setters runCmd.Run calls on the evaluator.                 *)
(***************************************************************************)
Home == <<"/", "r">>
\* evaluator.SetIdentity
SetIdentity(file) ==
    IF file # <<>> THEN file
    ELSE Home \o <<"/", ".", "s", "s", "h", "/", "i", "d", "_", "r", "s", "a">>

\* runCmd.Run's loop over -set flags: each NAME=VALUE matching ^([^=]+)=(.*)$
\* is stored with evaluator.SetVariable.
RECURSIVE SetVariables(_, _, _)
SetVariables(sets, i, ro) ==
    IF i > Len(sets) THEN ro
    ELSE LET j == IndexFrom(sets[i], "=", 1)
         IN  IF j >= 2
             THEN SetVariables(sets, i + 1,
                      MapSet(ro, SubSeq(sets[i], 1, j - 1),
                             SubSeq(sets[i], j + 1, Len(sets[i]))))
             ELSE SetVariables(sets, i + 1, ro)

(***************************************************************************)
(* The initial state: the run command has been started on one recipe.      *)
(***************************************************************************)
Init ==
    /\ tokens \in Recipes(MaxLines)
    /\ offset = 0
    /\ statements = <<>>
    /\ parseErr = NilErr
    /\ pc = "start"
    /\ flags \in [target : Targets, nop : BOOLEAN, identity : {<<>>}, vars : VarFlags]
    /\ Program = <<>>
    /\ Identity = <<>>
    /\ NOP = FALSE
    /\ Variables = EmptyMap
    /\ ROVariables = EmptyMap
    /\ Connection = NilConn
    /\ Changed = FALSE
    /\ ip = 0
    /\ sudoPassword = <<>>
    /\ runErr = Nil
    /\ calls = <<>>
    /\ remote \in RemoteStates
    /\ scratch = {}
    /\ prompts = 0
    /\ printed = <<>>
    /\ NoInput

env == [calls |-> calls, remote |-> remote, scratch |-> scratch, printed |-> printed]

(***************************************************************************)
(* runCmd.Run, first part: lex and parse the recipe.                       *)
(***************************************************************************)
AfterParse_IgnoresError(err) == "parsed"

\* What runCmd.Run does with the error Parse returned.
AfterParse(err) == IF err # NilErr THEN "parse_failed" ELSE "parsed"

CmdParse ==
    /\ pc = "start"
    /\ LET r == Parse(tokens)
       IN  /\ statements' = r.result
           /\ parseErr' = r.err
           /\ offset' = r.off
           /\ pc' = AfterParse(r.err)
    /\ UNCHANGED <<lexVars, tokens, flags, evalVars, envVars>>

(***************************************************************************)
(* runCmd.Run, second part: create the evaluator, connect to the -target,  *)
(* then apply the flags.                                                   *)
(***************************************************************************)
CmdSetup ==
    /\ pc = "parsed"
    /\ \E agent \in BOOLEAN, ok \in BOOLEAN :
         LET c == IF flags.target # <<>>
                  THEN ConnectTo(flags.target, Connection, Variables, Identity, calls, agent, ok)
                  ELSE [Connection |-> Connection, Variables |-> Variables,
                        calls |-> calls, err |-> Nil, printed |-> <<>>]
         IN  /\ Program' = statements
             /\ Connection' = c.Connection
             /\ Variables' = c.Variables
             /\ calls' = c.calls
             /\ printed' = printed \o c.printed
             /\ runErr' = c.err
             /\ IF c.err # Nil
                THEN /\ pc' = "connect_failed"
                     /\ UNCHANGED <<NOP, Identity, ROVariables>>
                ELSE /\ pc' = "run"
                     /\ NOP' = flags.nop
                     /\ Identity' = SetIdentity(flags.identity)
                     /\ ROVariables' = SetVariables(flags.vars, 1, EmptyMap)
    /\ UNCHANGED <<lexVars, parserVars, flags, Changed, ip, sudoPassword, remote, scratch, prompts>>

(***************************************************************************)
(* Evaluator.Run, before the loop: look for a statement that needs sudo    *)
(* and prompt for the password.                                            *)
(***************************************************************************)
NeedsSudo_FirstOnly(program) == Len(program) > 0 /\ program[1].Sudo

NeedsSudo(program) == \E i \in 1..Len(program) : program[i].Sudo

RunStart ==
    /\ pc = "run"
    /\ IF NeedsSudo(Program)
       THEN \E ok \in BOOLEAN :
              /\ prompts' = prompts + 1
              /\ IF ok
                 THEN /\ sudoPassword' = <<"p", "w">>
                      /\ pc' = "loop"
                      /\ ip' = 1
                      /\ UNCHANGED runErr
                 ELSE /\ runErr' = "prompt failed"
                      /\ pc' = "run_failed"
                      /\ UNCHANGED <<sudoPassword, ip>>
       ELSE /\ pc' = "loop"
            /\ ip' = 1
            /\ UNCHANGED <<sudoPassword, runErr, prompts>>
    /\ UNCHANGED <<lexVars, parserVars, flags, Program, Identity, NOP, Variables, ROVariables,
                   Connection, Changed, calls, remote, scratch, printed>>

Disconnected_NotTested(conn) == FALSE

\* The test "if e.Connection == nil" of the statements that need a target.
Disconnected(conn) == conn = NilConn

NewChanged_Accumulates(old, result) == old \/ result

\* The value a copy statement stores in e.Changed.
NewChanged(old, result) == result

\* The statement Evaluator.Run's loop is at.
AtStatement(types) ==
    /\ pc = "loop"
    /\ ip <= Len(Program)
    /\ Program[ip].Token.Type \in types

NotConnected == "tried to run a command, but not connected to a target"

Fail(err) ==
    /\ runErr' = err
    /\ pc' = "run_failed"

Expand(in) == expandString(in, ROVariables, Variables)

(***************************************************************************)
(* Evaluator.Run, case "CopyTemplate" and case "CopyFile".                 *)
(***************************************************************************)
StepCopy ==
    /\ AtStatement({COPYTEMPLATE, COPYFILE})
    /\ LET st == Program[ip]
           src == Expand(st.Arguments[1].Literal)
           dst == Expand(st.Arguments[2].Literal)
           files == Glob(IF HasSuffix(src, "/") THEN src \o <<"*">> ELSE src)
       IN  IF Disconnected(Connection)
           THEN /\ Fail(NotConnected)
                /\ UNCHANGED <<ip, Changed, envVars>>
           ELSE IF NOP
           THEN /\ ip' = ip + 1
                /\ UNCHANGED <<pc, runErr, Changed, envVars>>
           ELSE \E os \in OutcomeSeqs(files, 1) :
                  LET r == copyFiles(src, dst, st.Token.Type = COPYTEMPLATE,
                                     ROVariables, Variables, env, os)
                  IN  /\ calls' = r.env.calls
                      /\ remote' = r.env.remote
                      /\ scratch' = r.env.scratch
                      /\ printed' = r.env.printed
                      /\ IF r.exit
                         THEN /\ pc' = "exited"
                              /\ UNCHANGED <<ip, Changed, runErr>>
                         ELSE /\ Changed' = NewChanged(Changed, r.changed)
                              /\ ip' = ip + 1
                              /\ UNCHANGED <<pc, runErr>>
                      /\ UNCHANGED prompts
    /\ UNCHANGED <<lexVars, parserVars, flags, Program, Identity, NOP, Variables, ROVariables,
                   Connection, sudoPassword>>

(***************************************************************************)
(* Evaluator.Run, case "DeployTo".                                         *)
(***************************************************************************)
StepDeployTo ==
    /\ AtStatement({DEPLOYTO})
    /\ \E agent \in BOOLEAN, ok \in BOOLEAN :
         LET arg == Expand(Program[ip].Arguments[1].Literal)
             c == ConnectTo(arg, Connection, Variables, Identity, calls, agent, ok)
         IN  /\ Connection' = c.Connection
             /\ Variables' = c.Variables
             /\ calls' = c.calls
             /\ printed' = printed \o c.printed
             /\ IF c.err # Nil
                THEN /\ Fail(c.err)
                     /\ UNCHANGED ip
                ELSE /\ ip' = ip + 1
                     /\ UNCHANGED <<pc, runErr>>
    /\ UNCHANGED <<lexVars, parserVars, flags, Program, Identity, NOP, ROVariables, Changed,
                   sudoPassword, remote, scratch, prompts>>

ExecCall_AlwaysPlain(st, cmd, password, ok) ==
    [op |-> "exec", cmd |-> cmd, res |-> IF ok THEN "ok" ELSE "failed"]

\* The exec call of a Run or IfChanged statement.
ExecCall(st, cmd, password, ok) ==
    IF st.Sudo
    THEN [op |-> "execSudo", cmd |-> cmd, password |-> password,
          res |-> IF ok THEN "ok" ELSE "failed"]
    ELSE [op |-> "exec", cmd |-> cmd, res |-> IF ok THEN "ok" ELSE "failed"]

Execute_Unexpanded(st, ok) ==
    /\ calls' = Append(calls, ExecCall(st, st.Arguments[1].Literal, sudoPassword, ok))
    /\ IF ok
       THEN /\ ip' = ip + 1
            /\ UNCHANGED <<pc, runErr>>
       ELSE /\ Fail("failed to run command")
            /\ UNCHANGED ip

Execute_IgnoresFailure(st, ok) ==
    /\ calls' = Append(calls, ExecCall(st, Expand(st.Arguments[1].Literal),
                                       sudoPassword, ok))
    /\ ip' = ip + 1
    /\ UNCHANGED <<pc, runErr>>

\* The statement's command is executed; a failure ends the run.
Execute(st, ok) ==
    /\ calls' = Append(calls, ExecCall(st, Expand(st.Arguments[1].Literal),
                                       sudoPassword, ok))
    /\ IF ok
       THEN /\ ip' = ip + 1
            /\ UNCHANGED <<pc, runErr>>
       ELSE /\ Fail("failed to run command")
            /\ UNCHANGED ip

SkipIfChanged_Never(changed) == FALSE

\* IfChanged's first test: is the command skipped?
SkipIfChanged(changed) == ~changed

(***************************************************************************)
(* Evaluator.Run, case "IfChanged".                                        *)
(***************************************************************************)
StepIfChanged ==
    /\ AtStatement({IFCHANGED})
    /\ IF SkipIfChanged(Changed)
       THEN /\ ip' = ip + 1
            /\ UNCHANGED <<pc, runErr, calls, printed>>
       ELSE IF Disconnected(Connection)
       THEN /\ Fail(NotConnected)
            /\ UNCHANGED <<ip, calls, printed>>
       ELSE IF NOP
       THEN \* runCmd.Run sets Verbose together with NOP: the expanded
            \* command is reported before the dry-run test
            /\ ip' = ip + 1
            /\ printed' = Append(printed, "IfChanged")
            /\ UNCHANGED <<pc, runErr, calls>>
       ELSE /\ \E ok \in BOOLEAN : Execute(Program[ip], ok)
            /\ UNCHANGED printed
    /\ UNCHANGED <<lexVars, parserVars, flags, Program, Identity, NOP, Variables, ROVariables,
                   Connection, Changed, sudoPassword, remote, scratch, prompts>>

(***************************************************************************)
(* Evaluator.Run, case "Run".                                              *)
(***************************************************************************)
StepRun ==
    /\ AtStatement({RUN})
    /\ IF Disconnected(Connection)
       THEN /\ Fail(NotConnected)
            /\ UNCHANGED <<ip, calls>>
       ELSE IF NOP
       THEN /\ ip' = ip + 1
            /\ UNCHANGED <<pc, runErr, calls>>
       ELSE \E ok \in BOOLEAN : Execute(Program[ip], ok)
    /\ UNCHANGED <<lexVars, parserVars, flags, Program, Identity, NOP, Variables, ROVariables,
                   Connection, Changed, sudoPassword, remote, scratch, prompts, printed>>

(***************************************************************************)
(* Evaluator.Run, case "Set".                                              *)
(***************************************************************************)
StepSet ==
    /\ AtStatement({SET})
    /\ LET key == Program[ip].Arguments[1].Literal
           val == Expand(Program[ip].Arguments[2].Literal)
       IN  Variables' = MapSet(Variables, key, val)
    /\ ip' = ip + 1
    /\ UNCHANGED <<lexVars, parserVars, flags, Program, Identity, NOP, ROVariables, Connection,
                   Changed, sudoPassword, runErr, pc, envVars>>

(***************************************************************************)
(* Evaluator.Run, after the loop: disconnect and return nil.               *)
(***************************************************************************)
Disconnect_Never(conn, log) == log

\* "if e.Connection != nil { e.Connection.Close() }"
Disconnect(conn, log) == IF conn # NilConn THEN Append(log, [op |-> "close"]) ELSE log

RunFinish ==
    /\ pc = "loop"
    /\ ip > Len(Program)
    /\ calls' = Disconnect(Connection, calls)
    /\ pc' = "finished"
    /\ UNCHANGED <<lexVars, parserVars, flags, evalVars, remote, scratch, prompts, printed>>

Next ==
    \/ CmdParse
    \/ CmdSetup
    \/ RunStart
    \/ StepCopy
    \/ StepDeployTo
    \/ StepIfChanged
    \/ StepRun
    \/ StepSet
    \/ RunFinish

Spec == Init /\ [][Next]_vars

(***************************************************************************)
(* The parser on its own: Parse is run once on every stream of at most     *)
(* MaxTokens tokens (the EOF that ends the stream not counted).            *)
(***************************************************************************)
ParserTokens ==
    { Token(DEPLOYTO, <<"D", "e", "p", "l", "o", "y", "T", "o">>),
      Token(SET, <<"S", "e", "t">>),
      Token(RUN, <<"R", "u", "n">>),
      Token(IFCHANGED, <<"I", "f", "C", "h", "a", "n", "g", "e", "d">>),
      Token(COPYFILE, <<"C", "o", "p", "y", "F", "i", "l", "e">>),
      Token(COPYTEMPLATE, <<"C", "o", "p", "y", "T", "e", "m", "p", "l", "a", "t", "e">>),
      Token(SUDO, <<"S", "u", "d", "o">>),
      Token(IDENT, <<"a">>),
      Token(STRINGT, <<"b">>),
      Token(ILLEGAL, <<"u", "n", "t">>),
      Token("MOI", <<"K", "I", "S", "S", "A">>) }

RECURSIVE Streams(_)
Streams(n) ==
    IF n = 0 THEN { <<>> }
    ELSE LET shorter == Streams(n - 1)
         IN  shorter \cup { Append(r, t) : r \in shorter, t \in ParserTokens }

InitParser ==
    /\ tokens \in Streams(MaxTokens)
    /\ offset = 0
    /\ statements = <<>>
    /\ parseErr = NilErr
    /\ pc = "start"
    /\ flags = [target |-> <<>>, nop |-> FALSE, identity |-> <<>>, vars |-> <<>>]
    /\ Program = <<>>
    /\ Identity = <<>>
    /\ NOP = FALSE
    /\ Variables = EmptyMap
    /\ ROVariables = EmptyMap
    /\ Connection = NilConn
    /\ Changed = FALSE
    /\ ip = 0
    /\ sudoPassword = <<>>
    /\ runErr = Nil
    /\ calls = <<>>
    /\ remote = EmptyMap
    /\ scratch = {}
    /\ prompts = 0
    /\ printed = <<>>
    /\ NoInput

NextParser == CmdParse

SpecParser == InitParser /\ [][NextParser]_vars

(***************************************************************************)
(* The lexer on its own, followed by the parser: the text is made of at    *)
(* most MaxPieces of the pieces below, or is one of the examples of the    *)
(* lexer's tests and of PARSING.md.  NextToken is called until it returns  *)
(* EOF; the tokens before the EOF are then parsed.                         *)
(***************************************************************************)
LexPieces ==
    { <<"R", "u", "n">>, <<"n">>, <<" ">>, <<"\n">>, <<"#">>, <<"!">>, <<"\"">>, <<"\\">> }

LexExamples ==
    { <<"#", "!", "/", "u", "\n", "#", " ", "c", "\n", "S", "e", "t", " ",
        "g", "r", "e", "e", "t", "i", "n", "g", " ", "\"", "H", "e", "l",
        "l", "o", ",", " ", "w", "o", "r", "l", "d", "!", "\"">>,
      <<"S", "e", "t", " ", "g", "r", "e", "e", "t", "i", "n", "g", " ", "\"", "H", "e", "l",
        "l", "o", ",", " ", "w", "o", "r", "l", "d", "!", "\"">>,
      <<"C", "o", "p", "y", "F", "i", "l", "e">>,
      <<"C", "o", "p", "y", "T", "e", "m", "p", "l", "a", "t", "e">>,
      <<"D", "e", "p", "l", "o", "y", "T", "o">>,
      <<"I", "f", "C", "h", "a", "n", "g", "e", "d">>,
      <<"S", "u", "d", "o">>,
      <<"S", "e", "t">>,
      <<"r", "u", "n">>,
      <<"R", "U", "N">>,
      <<"S", "e", "t", "s">>,
      <<"S", "e">>,
      <<"\"", "S", "\\", "n", "\\", "r", "\\", "\\", "\"", " ", "\"", "K",
        "\\", "n", "\\", "t", "\\", "n", "\"", " ", "\"", "I", " ", "\\",
        "\"", "q", "\\", "\"", ".", "\"">>,
      <<"R", "u", "n", " ", "\"", "a", " ", "\\", "\n", "b", "\"", "\n">>,
      <<"#", "!", "/", "u", "\n", "R", "u", "n", " ", "\"", "S", "t", "e",
        "v", "e">>,
      <<"#", " ", "c", "\n", "\"", "S", "t", "e", "v", "e", "\"", "\n",
        "#", " ", "d">>,
      <<"S", "e", "t", " ", "R", "u", "n", " ", "\"", "x", "\"">>,
      <<"C", "o", "p", "y", "F", "i", "l", "e", " ", "S", "u", "d", "o", " ",
        "/", "t", "m", "p", "/", "x">>,
      <<"C", "o", "p", "y", "F", "i", "l", "e", " ", "/", "x", " ", "S", "e", "t">>,
      <<"D", "e", "p", "l", "o", "y", "T", "o", " ", "S", "e", "t">>,
      <<"D", "e", "p", "l", "o", "y", "T", "o", " ", "s", "e", "t">> }

RECURSIVE LexTexts(_)
LexTexts(n) ==
    IF n = 0 THEN { <<>> }
    ELSE LET shorter == LexTexts(n - 1)
         IN  shorter \cup { t \o q : t \in shorter, q \in LexPieces }

InitLexer ==
    /\ characters \in LexTexts(MaxPieces) \cup LexExamples
    /\ position = New(characters).position
    /\ readPosition = New(characters).readPosition
    /\ ch = New(characters).ch
    /\ tokens = <<>>
    /\ offset = 0
    /\ statements = <<>>
    /\ parseErr = NilErr
    /\ pc = "lex"
    /\ flags = [target |-> <<>>, nop |-> FALSE, identity |-> <<>>, vars |-> <<>>]
    /\ Program = <<>>
    /\ Identity = <<>>
    /\ NOP = FALSE
    /\ Variables = EmptyMap
    /\ ROVariables = EmptyMap
    /\ Connection = NilConn
    /\ Changed = FALSE
    /\ ip = 0
    /\ sudoPassword = <<>>
    /\ runErr = Nil
    /\ calls = <<>>
    /\ remote = EmptyMap
    /\ scratch = {}
    /\ prompts = 0
    /\ printed = <<>>

\* One call of NextToken by the parser's token source.
LexStep ==
    /\ pc = "lex"
    /\ LET r == LexerNextToken(characters,
                               [position |-> position, readPosition |-> readPosition,
                                ch |-> ch])
       IN  /\ position' = r.l.position
           /\ readPosition' = r.l.readPosition
           /\ ch' = r.l.ch
           /\ IF r.tok.Type = EOF
              THEN /\ pc' = "start"
                   /\ UNCHANGED tokens
              ELSE /\ tokens' = Append(tokens, r.tok)
                   /\ UNCHANGED pc
    /\ UNCHANGED <<characters, offset, statements, parseErr, flags, evalVars, envVars>>

NextLexer ==
    \/ LexStep
    \/ CmdParse
    \/ CmdSetup

SpecLexer == InitLexer /\ [][NextLexer]_vars

(***************************************************************************)
(* The lexer called again and again, also after it has returned EOF, on    *)
(* texts that may hold the character with code 0.  tokens holds every      *)
(* token returned, the EOF tokens among them.                              *)
(***************************************************************************)
CallPieces == { <<"a">>, <<" ">>, <<"\n">>, <<"#">>, <<"\"">>, <<NUL>> }

RECURSIVE CallTexts(_)
CallTexts(n) ==
    IF n = 0 THEN { <<>> }
    ELSE LET shorter == CallTexts(n - 1)
         IN  shorter \cup { t \o q : t \in shorter, q \in CallPieces }

InitCalls ==
    /\ characters \in CallTexts(MaxPieces)
    /\ position = New(characters).position
    /\ readPosition = New(characters).readPosition
    /\ ch = New(characters).ch
    /\ tokens = <<>>
    /\ offset = 0
    /\ statements = <<>>
    /\ parseErr = NilErr
    /\ pc = "calls"
    /\ flags = [target |-> <<>>, nop |-> FALSE, identity |-> <<>>, vars |-> <<>>]
    /\ Program = <<>>
    /\ Identity = <<>>
    /\ NOP = FALSE
    /\ Variables = EmptyMap
    /\ ROVariables = EmptyMap
    /\ Connection = NilConn
    /\ Changed = FALSE
    /\ ip = 0
    /\ sudoPassword = <<>>
    /\ runErr = Nil
    /\ calls = <<>>
    /\ remote = EmptyMap
    /\ scratch = {}
    /\ prompts = 0
    /\ printed = <<>>

\* One call of NextToken; two calls more than the text has characters are
\* made.
CallNextToken ==
    /\ pc = "calls"
    /\ Len(tokens) < Len(characters) + 2
    /\ LET r == LexerNextToken(characters,
                               [position |-> position, readPosition |-> readPosition,
                                ch |-> ch])
       IN  /\ position' = r.l.position
           /\ readPosition' = r.l.readPosition
           /\ ch' = r.l.ch
           /\ tokens' = Append(tokens, r.tok)
    /\ UNCHANGED <<characters, offset, statements, parseErr, pc, flags, evalVars, envVars>>

NextCalls == CallNextToken

SpecCalls == InitCalls /\ [][NextCalls]_vars

(***************************************************************************)
(* The parser on streams of at most MaxSudoTokens well-formed tokens, long *)
(* enough for a Sudo token, a statement and a further statement.           *)
(***************************************************************************)
SudoTokens ==
    { Token(SUDO, <<"S", "u", "d", "o">>),
      Token(RUN, <<"R", "u", "n">>),
      Token(IFCHANGED, <<"I", "f", "C", "h", "a", "n", "g", "e", "d">>),
      Token(DEPLOYTO, <<"D", "e", "p", "l", "o", "y", "T", "o">>),
      Token(SET, <<"S", "e", "t">>),
      Token(COPYFILE, <<"C", "o", "p", "y", "F", "i", "l", "e">>),
      Token(COPYTEMPLATE, <<"C", "o", "p", "y", "T", "e", "m", "p", "l", "a", "t", "e">>),
      Token(IDENT, <<"a">>),
      Token(STRINGT, <<"b">>) }

RECURSIVE SudoStreams(_)
SudoStreams(n) ==
    IF n = 0 THEN { <<>> }
    ELSE LET shorter == SudoStreams(n - 1)
         IN  shorter \cup { Append(r, t) : r \in shorter, t \in SudoTokens }

InitSudo ==
    /\ tokens \in SudoStreams(MaxSudoTokens)
    /\ offset = 0
    /\ statements = <<>>
    /\ parseErr = NilErr
    /\ pc = "start"
    /\ flags = [target |-> <<>>, nop |-> FALSE, identity |-> <<>>, vars |-> <<>>]
    /\ Program = <<>>
    /\ Identity = <<>>
    /\ NOP = FALSE
    /\ Variables = EmptyMap
    /\ ROVariables = EmptyMap
    /\ Connection = NilConn
    /\ Changed = FALSE
    /\ ip = 0
    /\ sudoPassword = <<>>
    /\ runErr = Nil
    /\ calls = <<>>
    /\ remote = EmptyMap
    /\ scratch = {}
    /\ prompts = 0
    /\ printed = <<>>
    /\ NoInput

NextSudo == CmdParse

SpecSudo == InitSudo /\ [][NextSudo]_vars

(***************************************************************************)
(* The run command on recipes that set and use variables and name targets: *)
(* the recipes are made of at most MaxLines of the lines below, and the    *)
(* command line gives a -target and -set flags.                            *)
(***************************************************************************)
VarLines ==
    { << Token(SET, <<"S", "e", "t">>), Token(IDENT, <<"x">>), Token(STRINGT, <<"v">>) >>,
      << Token(SET, <<"S", "e", "t">>), Token(IDENT, <<"x">>), Token(STRINGT, <<>>) >>,
      << Token(RUN, <<"R", "u", "n">>), Token(STRINGT, <<"$", "{", "x", "}">>) >>,
      << Token(RUN, <<"R", "u", "n">>),
         Token(STRINGT, <<"$", "{", "u", "s", "e", "r", "}", "$", "{", "x", "}", "$", "{", "z", "}">>) >>,
      << Token(RUN, <<"R", "u", "n">>), Token(STRINGT, <<"$", "{", "}", "$", "x">>) >>,
      << Token(DEPLOYTO, <<"D", "e", "p", "l", "o", "y", "T", "o">>), Token(IDENT, <<"g", ":", "2">>) >>,
      << Token(DEPLOYTO, <<"D", "e", "p", "l", "o", "y", "T", "o">>), Token(IDENT, <<"v", "@", "g">>) >> }

RECURSIVE VarRecipes(_)
VarRecipes(n) ==
    IF n = 0 THEN { <<>> }
    ELSE LET shorter == VarRecipes(n - 1)
         IN  shorter \cup { r \o l : r \in shorter, l \in VarLines }

VarTargets == { <<>>, <<"h">>, <<"u", "@", "h", ":", "9">> }
VarSets ==
    { <<>>,
      << <<"x", "=">> >>,
      << <<"x", "=", "r">> >>,
      << <<"x", "=", "$", "{", "y", "}">>, <<"y", "=", "w">> >> }

InitVars ==
    /\ tokens \in VarRecipes(MaxLines)
    /\ offset = 0
    /\ statements = <<>>
    /\ parseErr = NilErr
    /\ pc = "start"
    /\ flags \in [target : VarTargets, nop : {FALSE}, identity : {<<>>}, vars : VarSets]
    /\ Program = <<>>
    /\ Identity = <<>>
    /\ NOP = FALSE
    /\ Variables = EmptyMap
    /\ ROVariables = EmptyMap
    /\ Connection = NilConn
    /\ Changed = FALSE
    /\ ip = 0
    /\ sudoPassword = <<>>
    /\ runErr = Nil
    /\ calls = <<>>
    /\ remote = EmptyMap
    /\ scratch = {}
    /\ prompts = 0
    /\ printed = <<>>
    /\ NoInput

NextVars ==
    \/ CmdParse
    \/ CmdSetup
    \/ RunStart
    \/ StepDeployTo
    \/ StepRun
    \/ StepSet
    \/ RunFinish

SpecVars == InitVars /\ [][NextVars]_vars

(***************************************************************************)
(* The run command on recipes that copy files to the -target: a directory  *)
(* of two files and a sub-directory, and a file that does not exist.       *)
(* The recipes are made of at most MaxCopyLines of the lines below.        *)
(***************************************************************************)
CopyLines ==
    { << Token(COPYFILE, <<"C", "o", "p", "y", "F", "i", "l", "e">>),
         Token(IDENT, <<"g", "/">>), Token(IDENT, <<"d">>) >>,
      << Token(COPYTEMPLATE, <<"C", "o", "p", "y", "T", "e", "m", "p", "l", "a", "t", "e">>),
         Token(IDENT, <<"g", "/", "*">>), Token(IDENT, <<"d", "/">>) >>,
      << Token(COPYFILE, <<"C", "o", "p", "y", "F", "i", "l", "e">>),
         Token(IDENT, <<"m">>), Token(IDENT, <<"d">>) >>,
      << Token(COPYTEMPLATE, <<"C", "o", "p", "y", "T", "e", "m", "p", "l", "a", "t", "e">>),
         Token(IDENT, <<"m">>), Token(IDENT, <<"d">>) >>,
      << Token(IFCHANGED, <<"I", "f", "C", "h", "a", "n", "g", "e", "d">>), Token(STRINGT, <<"c">>) >> }

RECURSIVE CopyRecipes(_)
CopyRecipes(n) ==
    IF n = 0 THEN { <<>> }
    ELSE LET shorter == CopyRecipes(n - 1)
         IN  shorter \cup { r \o l : r \in shorter, l \in CopyLines }

\* What the remote host holds of the directory's files: nothing, both as
\* they are locally, or one of them with another content.
CopyRemoteStates ==
    { EmptyMap,
      (<<"d", "/", "a">> :> HashFile(<<"a", "0">>)) @@ (<<"d", "/", "b">> :> HashFile(<<"b", "0">>)),
      (<<"d", "/", "a">> :> HashFile(<<"o">>)) @@ (<<"d", "/", "b">> :> HashFile(<<"b", "0">>)),
      (<<"d", "/", "a">> :> HashFile(<<"a", "0">>)) @@ (<<"d", "/", "b">> :> HashFile(<<"o">>)) }

InitCopy ==
    /\ tokens \in CopyRecipes(MaxCopyLines)
    /\ offset = 0
    /\ statements = <<>>
    /\ parseErr = NilErr
    /\ pc = "start"
    /\ flags \in [target : {<<"u", "@", "h">>}, nop : {FALSE}, identity : {<<>>}, vars : {<<>>}]
    /\ Program = <<>>
    /\ Identity = <<>>
    /\ NOP = FALSE
    /\ Variables = EmptyMap
    /\ ROVariables = EmptyMap
    /\ Connection = NilConn
    /\ Changed = FALSE
    /\ ip = 0
    /\ sudoPassword = <<>>
    /\ runErr = Nil
    /\ calls = <<>>
    /\ remote \in CopyRemoteStates
    /\ scratch = {}
    /\ prompts = 0
    /\ printed = <<>>
    /\ NoInput

NextCopy ==
    \/ CmdParse
    \/ CmdSetup
    \/ RunStart
    \/ StepCopy
    \/ StepIfChanged
    \/ RunFinish

SpecCopy == InitCopy /\ [][NextCopy]_vars

(***************************************************************************)
(* Properties.                                                             *)
(***************************************************************************)
Ops(log) == [i \in 1..Len(log) |-> log[i].op]
Types(program) == [i \in 1..Len(program) |-> program[i].Token.Type]
Kinds(toks) == [i \in 1..Len(toks) |-> toks[i].Type]

\* C1: if Parse returns an error, nothing touches the remote host for that
\* recipe: runCmd.Run has ended, no evaluator was created (no program, no
\* connection, no statement reached) and no connect, exec, upload, download
\* or close call was made, even when a -target was given and statements
\* were parsed before the offending token.
C1_ParseErrorTouchesNothing ==
    parseErr # NilErr =>
        /\ pc = "parse_failed"
        /\ calls = <<>>
        /\ Connection = NilConn
        /\ Program = <<>>
        /\ ip = 0
        /\ remote \in RemoteStates

C1_Witness ==
    /\ pc = "parse_failed"
    /\ parseErr # NilErr
    /\ flags.target # <<>>
    /\ Len(statements) = 2

\* The number of action tokens (every keyword but Sudo) of a stream.
ActionTypes == {COPYFILE, COPYTEMPLATE, DEPLOYTO, IFCHANGED, RUN, SET}
ActionCount(toks) == Cardinality({i \in 1..Len(toks) : toks[i].Type \in ActionTypes})

\* C2: Parse is all-or-nothing: when it returns an error the list it returns
\* is empty, also when valid statements precede the offending token; when it
\* returns no error the list holds one statement per action token.
C2_AllOrNothing ==
    pc # "start" =>
        /\ parseErr # NilErr => statements = <<>>
        /\ parseErr = NilErr => Len(statements) = ActionCount(tokens)

\* The argument kinds of the specification's table.
ArgTable ==
    (DEPLOYTO :> <<IDENT>>) @@ (RUN :> <<STRINGT>>) @@ (IFCHANGED :> <<STRINGT>>) @@
    (SET :> <<IDENT, STRINGT>>) @@ (COPYFILE :> <<IDENT, IDENT>>) @@
    (COPYTEMPLATE :> <<IDENT, IDENT>>)

\* Do the tokens after the action at position p have the kinds of the table?
ArgsMatch(toks, p) ==
    \A i \in 1..Len(ArgTable[toks[p].Type]) :
        NextToken(toks, p + i).Type = ArgTable[toks[p].Type][i]

\* The tokens of a statement list, in order: each action, then its arguments.
RECURSIVE Flatten(_)
Flatten(list) ==
    IF list = <<>> THEN <<>>
    ELSE <<Head(list).Token>> \o Head(list).Arguments \o Flatten(Tail(list))

RECURSIVE WithoutSudo(_)
WithoutSudo(toks) ==
    IF toks = <<>> THEN <<>>
    ELSE IF Head(toks).Type = SUDO THEN WithoutSudo(Tail(toks))
    ELSE <<Head(toks)>> \o WithoutSudo(Tail(toks))

\* C3: Parse accepts an action exactly when the tokens after it have the
\* kinds of the table: an action at the head of the stream whose arguments
\* do not match is rejected with an 'expected' error before any further
\* token is pulled, one whose arguments match is accepted (parsing goes on
\* behind it); and in every program returned without error each statement
\* carries its action token and exactly the table's argument tokens, in the
\* order of the stream.
C3_ArgumentTable ==
    pc # "start" =>
        /\ (tokens # <<>> /\ tokens[1].Type \in ActionTypes) =>
              LET n == Len(ArgTable[tokens[1].Type])
              IN  IF ArgsMatch(tokens, 1)
                  THEN /\ offset > 1 + n
                       /\ parseErr = NilErr =>
                             /\ statements[1].Token = tokens[1]
                             /\ statements[1].Arguments = SubSeq(tokens, 2, 1 + n)
                  ELSE /\ parseErr.msg = "expected"
                       /\ offset <= 1 + n
                       /\ NextToken(tokens, offset).Type # parseErr.want
                       /\ parseErr.want = ArgTable[tokens[1].Type][parseErr.argument]
        /\ parseErr = NilErr =>
              /\ \A i \in 1..Len(statements) :
                    /\ statements[i].Token.Type \in ActionTypes
                    /\ Kinds(statements[i].Arguments) = ArgTable[statements[i].Token.Type]
              /\ Flatten(statements) = WithoutSudo(tokens)

C3_Witness ==
    /\ pc = "parsed"
    /\ Len(tokens) = 4
    /\ Len(statements) = 1
    /\ statements[1].Token.Type = SET
    /\ Kinds(statements[1].Arguments) = <<IDENT, STRINGT>>

IsExec(c) == c.op \in {"exec", "execSudo"}
IsUpload(c) == c.op = "upload"
Appended == SubSeq(calls', Len(calls) + 1, Len(calls'))
AppendOnly == Len(calls') >= Len(calls) /\ SubSeq(calls', 1, Len(calls)) = calls
AtType(types) == pc = "loop" /\ ip <= Len(Program) /\ Program[ip].Token.Type \in types
Live == Connection # NilConn /\ ~NOP
Terminal == pc \in {"parse_failed", "connect_failed", "run_failed", "finished", "exited"}

\* C4: a connected evaluator that is not in dry-run mode executes the
\* statements in program order: the loop never goes back, calls are only
\* ever appended, a Run statement reached appends exactly one exec call whose
\* command is the expansion of its argument under the bindings of that
\* moment, and a statement that is neither Run nor IfChanged appends no
\* exec call; DeployTo, Set K "V", Run "e${K}" ends with the single exec
\* call of command "eV".
C4_RunStep ==
    /\ AppendOnly
    /\ ip' \in {ip, ip + 1} \/ pc = "run"
    /\ (AtType({RUN}) /\ Live) =>
          /\ Len(Appended) = 1
          /\ IsExec(Appended[1])
          /\ Appended[1].cmd = expandString(Program[ip].Arguments[1].Literal,
                                            ROVariables, Variables)
    /\ AtType({SET, DEPLOYTO, COPYFILE, COPYTEMPLATE}) =>
          \A i \in 1..Len(Appended) : ~IsExec(Appended[i])

C4_ScenarioC ==
    (/\ pc = "finished"
     /\ Types(Program) = <<DEPLOYTO, SET, RUN>>
     /\ ~NOP
     /\ ROVariables = EmptyMap) =>
        /\ Len(SelectSeq(calls, IsExec)) = 1
        /\ SelectSeq(calls, IsExec)[1].cmd = <<"e", "V">>

C4_ExecInProgramOrder == []C4_ScenarioC /\ [][C4_RunStep]_vars

C4_Witness ==
    /\ pc = "finished"
    /\ Types(Program) = <<DEPLOYTO, SET, RUN>>
    /\ ~NOP
    /\ ROVariables = EmptyMap
    /\ Ops(calls) = <<"connect", "exec", "close">>
    /\ calls[2].cmd = <<"e", "V">>

\* C5: a Run statement reached while no connection is established makes Run
\* return an error, issues no call, and ends the run: no step follows.
C5_RunStep ==
    /\ (AtType({RUN}) /\ Connection = NilConn) =>
          /\ pc' = "run_failed"
          /\ runErr' = NotConnected
          /\ calls' = calls
          /\ ip' = ip
    /\ ~Terminal

C5_RunNeedsConnection == [][C5_RunStep]_vars

C5_Witness ==
    /\ pc = "run_failed"
    /\ runErr = NotConnected
    /\ Program[ip].Token.Type = RUN
    /\ ip < Len(Program)
    /\ calls = <<>>

\* C6: for a connected evaluator not in dry-run mode, an IfChanged statement
\* issues its exec call if and only if Changed is true when it is reached;
\* when Changed is false it issues no call, returns no error, and the loop
\* goes on to the next statement.
C6_IfChangedStep ==
    (AtType({IFCHANGED}) /\ Live) =>
        IF Changed
        THEN /\ Len(Appended) = 1
             /\ IsExec(Appended[1])
             /\ Appended[1].cmd = expandString(Program[ip].Arguments[1].Literal,
                                               ROVariables, Variables)
        ELSE /\ calls' = calls
             /\ runErr' = Nil
             /\ pc' = "loop"
             /\ ip' = ip + 1

C6_IfChangedIffChanged == [][C6_IfChangedStep]_vars

C6_Witness ==
    /\ pc = "finished"
    /\ Types(Program) = <<IFCHANGED, COPYFILE, IFCHANGED>>
    /\ Ops(calls) = <<"connect", "download", "upload", "exec", "close">>

\* C7: Changed is a single slot: every executed copy statement overwrites it
\* with its own result (an upload was attempted or not), whatever it held;
\* after two copy statements and an IfChanged, the IfChanged has run its
\* command exactly when the second copy attempted an upload.
C7_CopyStep ==
    (AtType({COPYFILE, COPYTEMPLATE}) /\ Live /\ pc' = "loop") =>
        Changed' = (\E i \in 1..Len(Appended) : IsUpload(Appended[i]))

C7_Scenario ==
    (/\ pc = "finished"
     /\ Len(Program) = 3
     /\ Program[1].Token.Type \in {COPYFILE, COPYTEMPLATE}
     /\ Program[2].Token.Type \in {COPYFILE, COPYTEMPLATE}
     /\ Program[3].Token.Type = IFCHANGED
     /\ ~NOP) =>
        LET second == IF IsUpload(calls[3]) THEN 4 ELSE 3
        IN  /\ calls[2].op = "download"
            /\ calls[second].op = "download"
            /\ (\E i \in 1..Len(calls) : IsExec(calls[i])) = IsUpload(calls[second + 1])

C7_ChangedIsSingleSlot == []C7_Scenario /\ [][C7_CopyStep]_vars

C7_Witness ==
    /\ pc = "finished"
    /\ Types(Program) = <<COPYFILE, COPYFILE, IFCHANGED>>
    /\ Ops(calls) = <<"connect", "download", "upload", "download", "close">>
    /\ ~Changed

\* The fingerprint of the file a copy statement uploads.
LocalHash(st) ==
    HashFile(IF st.Token.Type = COPYTEMPLATE
             THEN Render(LocalFiles[st.Arguments[1].Literal].content, ROVariables, Variables)
             ELSE LocalFiles[st.Arguments[1].Literal].content)

\* A copy statement of one file has returned from copyFile.
CopiedOne ==
    /\ AtType({COPYFILE, COPYTEMPLATE})
    /\ Live
    /\ pc' = "loop"
    /\ Len(Appended) >= 1
    /\ Appended[1].op = "download"

\* C8 as stated: changed is true exactly when the download fails with 'does
\* not exist' or succeeds with a remote fingerprint that differs from the
\* local one, and the upload is invoked exactly when changed is true.
C8_CopyStepAsStated ==
    CopiedOne =>
        /\ Changed' = (\/ Appended[1].res = "not exist"
                       \/ /\ Appended[1].res = "ok"
                          /\ RemoteGet(remote, Appended[1].path) # LocalHash(Program[ip]))
        /\ Changed' = (Len(Appended) = 2 /\ IsUpload(Appended[2]))

C8_AsStated == [][C8_CopyStepAsStated]_vars

\* C8, amended: changed is true exactly when the download fails with 'does
\* not exist', or succeeds, the downloaded copy is fingerprinted and the
\* fingerprint differs from the local one; when the download fails otherwise,
\* or the downloaded copy cannot be fingerprinted, changed is false; and the
\* upload is invoked exactly when changed is true.
C8_CopyStep ==
    CopiedOne =>
        LET hashFailed == Len(printed') > Len(printed)
                          /\ printed'[Len(printed) + 1] = "Failed to hash remote file"
        IN  /\ Changed' = (\/ Appended[1].res = "not exist"
                           \/ /\ Appended[1].res = "ok"
                              /\ ~hashFailed
                              /\ RemoteGet(remote, Appended[1].path) # LocalHash(Program[ip]))
            /\ Changed' = (Len(Appended) = 2 /\ IsUpload(Appended[2]))
            /\ Len(Appended) = 2 => Appended[2].hash = LocalHash(Program[ip])
            /\ Len(Appended) <= 2

C8_ChangedIffUploadNeeded == [][C8_CopyStep]_vars

C8_Witness ==
    /\ pc = "loop"
    /\ Changed
    /\ Len(calls) >= 2
    /\ calls[Len(calls)].op = "upload"
    /\ calls[Len(calls) - 1].op = "download"
    /\ calls[Len(calls) - 1].res = "ok"

\* C9: executing the same CopyFile statement again, directly after an
\* execution that uploaded the file (so that neither the local nor the
\* remote file has changed in between), makes no upload call, leaves the
\* remote files as they are and reports changed = false.
C9_CopyStep ==
    (/\ AtType({COPYFILE})
     /\ Live
     /\ ip > 1
     /\ Program[ip - 1] = Program[ip]
     /\ calls[Len(calls)].op = "upload"
     /\ calls[Len(calls)].res = "ok") =>
        /\ \A i \in 1..Len(Appended) : ~IsUpload(Appended[i])
        /\ remote' = remote
        /\ pc' = "loop" => ~Changed'

C9_CopyFileIdempotent == [][C9_CopyStep]_vars

C9_Witness ==
    /\ pc = "finished"
    /\ Len(Program) = 2
    /\ Program[1] = Program[2]
    /\ Program[1].Token.Type = COPYFILE
    /\ Ops(calls) = <<"connect", "download", "upload", "download", "close">>
    /\ calls[3].res = "ok"
    /\ calls[4].res = "ok"
    /\ ~Changed

\* C10: when the exec call of a Run or IfChanged statement returns an error,
\* Run returns an error at once: the step that made the call ends the run at
\* that statement, no step follows it, and what earlier statements did (the
\* remote files, the variables, the calls made) is left as it was.
C10_ExecStep ==
    /\ (Len(Appended) = 1 /\ IsExec(Appended[1]) /\ Appended[1].res = "failed") =>
          /\ pc' = "run_failed"
          /\ runErr' # Nil
          /\ ip' = ip
          /\ remote' = remote
          /\ Variables' = Variables
          /\ AppendOnly
    /\ ~Terminal

C10_ExecFailureEndsRun == [][C10_ExecStep]_vars

C10_Witness ==
    /\ pc = "run_failed"
    /\ ip = 2
    /\ Len(Program) = 3
    /\ Ops(calls) = <<"connect", "download", "upload", "exec">>
    /\ calls[3].res = "ok"
    /\ calls[4].res = "failed"
    /\ remote[<<"d">>] = calls[3].hash

IsTransfer(c) == c.op \in {"download", "upload"}

\* C11: a transport failure of the download or of the upload during a
\* CopyFile or CopyTemplate statement is fatal: the step that made the failed
\* call ends the run with an error at that statement, so that no later
\* statement is executed.
C11_CopyStep ==
    (/\ AtType({COPYFILE, COPYTEMPLATE})
     /\ \E i \in 1..Len(Appended) : IsTransfer(Appended[i]) /\ Appended[i].res = "failed") =>
        /\ pc' = "run_failed"
        /\ runErr' # Nil
        /\ ip' = ip

C11_TransferFailureIsFatal == [][C11_CopyStep]_vars

\* The placeholder of a name.
Ref(name) == <<"$", "{">> \o name \o <<"}">>

\* C12: read-only variables are immutable from the recipe: once a name is in
\* the read-only set, whatever value it was given there (the empty value of
\* a 'name=' flag included), no step of the run changes what its placeholder
\* expands to.
C12_Step ==
    \A name \in DOMAIN ROVariables :
        expandString(Ref(name), ROVariables', Variables')
            = expandString(Ref(name), ROVariables, Variables)

C12_ReadOnlyIsImmutable == [][C12_Step]_vars

\* The value the placeholder of a name stands for, as stated: the read-only
\* value if the name is in the read-only map, otherwise the mutable value if
\* the name is in the mutable map, otherwise the placeholder itself.
StatedLookup(name, ro, rw) ==
    IF name \in DOMAIN ro THEN ro[name]
    ELSE IF name \in DOMAIN rw THEN rw[name]
    ELSE Ref(name)

RECURSIVE StatedExpandFrom(_, _, _, _)
StatedExpandFrom(s, i, ro, rw) ==
    IF i > Len(s) THEN <<>>
    ELSE LET j == IndexFrom(s, "}", i + 2)
         IN  IF s[i] = "$" /\ i + 1 <= Len(s) /\ s[i + 1] = "{" /\ j >= i + 3
             THEN StatedLookup(SubSeq(s, i + 2, j - 1), ro, rw)
                      \o StatedExpandFrom(s, j + 1, ro, rw)
             ELSE <<s[i]>> \o StatedExpandFrom(s, i + 1, ro, rw)

\* C13: the command a Run statement executes and the value a Set statement
\* stores are their argument with every placeholder replaced by the
\* read-only value of its name if the name is in the read-only map,
\* otherwise by the mutable value if the name is in the mutable map, and
\* otherwise left as it is; a read-only entry always shadows a mutable one.
C13_Step ==
    /\ (AtType({RUN}) /\ Live) =>
          /\ Len(Appended) = 1
          /\ Appended[1].cmd = StatedExpandFrom(Program[ip].Arguments[1].Literal, 1,
                                                ROVariables, Variables)
    /\ AtType({SET}) =>
          Variables'[Program[ip].Arguments[1].Literal]
              = StatedExpandFrom(Program[ip].Arguments[2].Literal, 1,
                                 ROVariables, Variables)

C13_ExpandByMembership == [][C13_Step]_vars

\* Does s hold a reference: "${", at least one character other than "}",
\* then "}"?
HasReference(s) ==
    \E i \in 1..Len(s), j \in 1..Len(s) :
        /\ i + 3 <= j
        /\ s[i] = "$"
        /\ s[i + 1] = "{"
        /\ s[j] = "}"
        /\ \A k \in (i + 2)..(j - 1) : s[k] # "}"

\* C14: expansion is a single pass: a Run argument that holds no reference
\* is executed unchanged, and a Run argument that is the placeholder of a
\* name bound to v is executed as exactly v, also when v itself holds a
\* reference.
C14_Step ==
    (AtType({RUN}) /\ Live) =>
        LET arg == Program[ip].Arguments[1].Literal
        IN  /\ Len(Appended) = 1
            /\ ~HasReference(arg) => Appended[1].cmd = arg
            /\ \A name \in DOMAIN ROVariables \cup DOMAIN Variables :
                  arg = Ref(name) =>
                      Appended[1].cmd = StatedLookup(name, ROVariables, Variables)

C14_SinglePass == [][C14_Step]_vars

HostVar == <<"h", "o", "s", "t">>
PortVar == <<"p", "o", "r", "t">>
UserVar == <<"u", "s", "e", "r">>

\* C15: first connection wins: a DeployTo statement reached while a
\* connection exists returns no error (the loop goes on to the next
\* statement), makes no connect call nor any other call, and leaves the
\* connection and every variable, host, port and user included, as they were.
C15_Step ==
    (AtType({DEPLOYTO}) /\ Connection # NilConn) =>
        /\ runErr' = Nil
        /\ pc' = "loop"
        /\ ip' = ip + 1
        /\ calls' = calls
        /\ Connection' = Connection
        /\ Variables' = Variables

C15_FirstConnectionWins == [][C15_Step]_vars

C15_Witness ==
    /\ pc = "finished"
    /\ flags.target = <<"u", "@", "h", ":", "9">>
    /\ Len(Program) = 2
    /\ Program[1].Arguments[1].Literal = <<"v", "@", "g">>
    /\ Program[2].Arguments[1].Literal = <<"g", ":", "2">>
    /\ Ops(calls) = <<"connect", "close">>
    /\ Connection = [destination |-> <<"h", ":", "9">>, user |-> <<"u">>]
    /\ Variables[HostVar] = <<"h">>
    /\ Variables[PortVar] = <<"9">>
    /\ Variables[UserVar] = <<"u">>

\* The user, host and port each target of the form [user@]host[:port] used
\* in the recipes and on the command line stands for.
StatedTarget ==
    (<<"h">> :> [user |-> <<"r", "o", "o", "t">>, host |-> <<"h">>, port |-> <<"2", "2">>]) @@
    (<<"u", "@", "h", ":", "9">> :> [user |-> <<"u">>, host |-> <<"h">>, port |-> <<"9">>]) @@
    (<<"g", ":", "2">> :> [user |-> <<"r", "o", "o", "t">>, host |-> <<"g">>, port |-> <<"2">>]) @@
    (<<"v", "@", "g">> :> [user |-> <<"v">>, host |-> <<"g">>, port |-> <<"2", "2">>])

\* C16: ConnectTo called without a connection, for the -target or for a
\* DeployTo statement, makes one connect call to host:port as user, where
\* the user is root when the target has no 'user@' and the port is 22 when
\* it has no ':port', and stores exactly these three values in the variables
\* host, port and user; when the call succeeds the connection is the one to
\* that destination and user.
C16_Step ==
    LET viaTarget == pc = "parsed" /\ flags.target # <<>>
        viaDeployTo == AtType({DEPLOYTO}) /\ Connection = NilConn
        target == IF viaTarget THEN flags.target ELSE Program[ip].Arguments[1].Literal
        want == StatedTarget[target]
    IN  (viaTarget \/ viaDeployTo) =>
            /\ Len(Appended) = 1
            /\ Appended[1].op = "connect"
            /\ Appended[1].destination = want.host \o <<":">> \o want.port
            /\ Appended[1].user = want.user
            /\ Variables'[HostVar] = want.host
            /\ Variables'[PortVar] = want.port
            /\ Variables'[UserVar] = want.user
            /\ Appended[1].res = "ok" =>
                  Connection' = [destination |-> want.host \o <<":">> \o want.port,
                                 user |-> want.user]

C16_ConnectToTarget == [][C16_Step]_vars

C16_Witness ==
    /\ pc = "finished"
    /\ flags.target = <<>>
    /\ Len(Program) = 1
    /\ Program[1].Arguments[1].Literal = <<"g", ":", "2">>
    /\ Ops(calls) = <<"connect", "close">>
    /\ calls[1].destination = <<"g", ":", "2">>
    /\ calls[1].user = <<"r", "o", "o", "t">>
    /\ Variables[HostVar] = <<"g">>
    /\ Variables[PortVar] = <<"2">>
    /\ Variables[UserVar] = <<"r", "o", "o", "t">>

\* The position in the stream of its i-th action token.
ActionPos(toks, i) ==
    CHOOSE p \in 1..Len(toks) :
        toks[p].Type \in ActionTypes /\ ActionCount(SubSeq(toks, 1, p)) = i

\* C17: the stream Sudo, Run (or IfChanged), STRING yields exactly one
\* statement, whose Sudo flag is true; the stream Run (or IfChanged), STRING
\* yields exactly one statement, whose flag is false; the stream of a single
\* Sudo yields the empty program and no error.  In every stream parsed
\* without error, the statement of a Run or IfChanged that directly follows
\* a Sudo token has the flag, no statement has it when the stream holds no
\* Sudo token, and a Sudo token at the end of the stream adds no statement.
C17_SudoMarksNextRun ==
    pc # "start" =>
        /\ (/\ Len(tokens) = 3
            /\ tokens[1].Type = SUDO
            /\ tokens[2].Type \in {RUN, IFCHANGED}
            /\ tokens[3].Type = STRINGT) =>
              /\ parseErr = NilErr
              /\ statements = << Statement(tokens[2], TRUE, <<tokens[3]>>) >>
        /\ (/\ Len(tokens) = 2
            /\ tokens[1].Type \in {RUN, IFCHANGED}
            /\ tokens[2].Type = STRINGT) =>
              /\ parseErr = NilErr
              /\ statements = << Statement(tokens[1], FALSE, <<tokens[2]>>) >>
        /\ Kinds(tokens) = <<SUDO>> =>
              /\ parseErr = NilErr
              /\ statements = <<>>
        /\ parseErr = NilErr =>
              /\ \A p \in 1..(Len(tokens) - 2) :
                    (/\ tokens[p].Type = SUDO
                     /\ tokens[p + 1].Type \in {RUN, IFCHANGED}
                     /\ tokens[p + 2].Type = STRINGT) =>
                        statements[ActionCount(SubSeq(tokens, 1, p + 1))].Sudo
              /\ (\A p \in 1..Len(tokens) : tokens[p].Type # SUDO) =>
                    \A i \in 1..Len(statements) : ~statements[i].Sudo
              /\ (tokens # <<>> /\ tokens[Len(tokens)].Type = SUDO) =>
                    Len(statements) = ActionCount(tokens)

C17_Witness ==
    /\ pc = "parsed"
    /\ Kinds(tokens) = <<SUDO, IFCHANGED, STRINGT>>
    /\ Len(statements) = 1
    /\ statements[1].Sudo

\* C18: in every program parsed without error, a statement with the Sudo
\* flag is a Run or IfChanged statement whose action token stands directly
\* after a Sudo token in the stream, so that each Sudo token marks at most
\* one statement; no Set, DeployTo, CopyFile or CopyTemplate statement has
\* the flag.
C18_SudoOnlyDirectlyBefore ==
    (pc # "start" /\ parseErr = NilErr) =>
        /\ \A i \in 1..Len(statements) :
              statements[i].Sudo =>
                  /\ statements[i].Token.Type \in {RUN, IFCHANGED}
                  /\ ActionPos(tokens, i) > 1
                  /\ tokens[ActionPos(tokens, i) - 1].Type = SUDO
        /\ Cardinality({i \in 1..Len(statements) : statements[i].Sudo})
              <= Cardinality({p \in 1..Len(tokens) : tokens[p].Type = SUDO})

\* C19: a Run or IfChanged statement that is executed makes exactly one
\* call: the privileged exec call, with the password Run holds, if the
\* statement's Sudo flag is set, and the plain exec call otherwise.
C19_ExecStep ==
    /\ (AtType({RUN, IFCHANGED}) /\ calls' # calls) =>
          /\ Len(Appended) = 1
          /\ AppendOnly
          /\ IF Program[ip].Sudo
             THEN /\ Appended[1].op = "execSudo"
                  /\ Appended[1].password = sudoPassword
             ELSE Appended[1].op = "exec"
    /\ (AtType({RUN}) /\ Live) => calls' # calls
    /\ (AtType({IFCHANGED}) /\ Live /\ Changed) => calls' # calls

C19_SudoFlagSelectsExec == [][C19_ExecStep]_vars

C19_Witness ==
    /\ pc = "finished"
    /\ Len(Program) = 2
    /\ Program[1].Sudo
    /\ ~Program[2].Sudo
    /\ Ops(calls) = <<"connect", "execSudo", "exec", "close">>
    /\ calls[2].password = sudoPassword

\* Has Evaluator.Run got past its prompt?
Prompted == pc \in {"loop", "finished", "exited"} \/ (pc = "run_failed" /\ ip > 0)

\* C20: Run prompts for the sudo password at most once, and before any
\* statement is executed; it prompts exactly when some statement of the
\* program has the Sudo flag; the password obtained is the one every
\* privileged exec call of the run is given; and a prompt that fails makes
\* Run return an error without any statement executed.
C20_State ==
    /\ prompts <= 1
    /\ ip = 0 => \A i \in 1..Len(calls) : calls[i].op = "connect"
    /\ pc \in {"start", "parsed", "parse_failed", "connect_failed", "run"} => prompts = 0
    /\ Prompted =>
          /\ (prompts = 1) = (\E i \in 1..Len(Program) : Program[i].Sudo)
          /\ prompts = 1 => sudoPassword = <<"p", "w">>
          /\ \A i \in 1..Len(calls) :
                calls[i].op = "execSudo" => calls[i].password = <<"p", "w">>
    /\ (pc = "run_failed" /\ ip = 0) =>
          /\ prompts = 1
          /\ runErr # Nil
          /\ \E i \in 1..Len(Program) : Program[i].Sudo

C20_Step ==
    /\ prompts' # prompts =>
          /\ pc = "run"
          /\ ip = 0
          /\ prompts' = prompts + 1
          /\ calls' = calls
    /\ sudoPassword' # sudoPassword => prompts' # prompts
    /\ ~(pc = "run_failed" /\ ip = 0)

C20_PromptOnceBeforeLoop == []C20_State /\ [][C20_Step]_vars

C20_Witness ==
    /\ pc = "finished"
    /\ prompts = 1
    /\ Types(Program) = <<DEPLOYTO, RUN>>
    /\ Program[2].Sudo
    /\ Ops(calls) = <<"connect", "execSudo", "close">>
    /\ calls[2].password = <<"p", "w">>

\* The calls that touch the network.
IsNetwork(c) == c.op \in {"connect", "exec", "execSudo", "upload", "download"}

\* C21: in dry-run mode Evaluator.Run attempts no network side effect: no
\* step of Run makes a connect, exec, privileged exec, upload or download
\* call, whatever statement it is at.
C21_RunStep ==
    (NOP /\ pc \in {"run", "loop"}) =>
        \A i \in 1..Len(Appended) : ~IsNetwork(Appended[i])

C21_DryRunMakesNoCall == [][C21_RunStep]_vars

\* C22: when Parse fails on an argument, the error names the kind that was
\* expected and the 1-based position n of the argument: the action token
\* stands n tokens before the last token pulled, the arguments before the
\* n-th have the kinds of the table, and the n-th token is the first whose
\* kind differs from the table's.  A wrong argument never goes unreported:
\* in a stream parsed without error every action has matching arguments;
\* and Run followed by an IDENT reports STRING and argument 1 (reading the
\* EOF that ends the stream as the kind found when the stream is too short).
C22_ArgumentError ==
    pc # "start" =>
        /\ parseErr.msg = "expected" =>
              LET n == parseErr.argument
                  a == offset - n
              IN  /\ a >= 1
                  /\ a <= Len(tokens)
                  /\ tokens[a].Type \in ActionTypes
                  /\ n \in 1..Len(ArgTable[tokens[a].Type])
                  /\ parseErr.want = ArgTable[tokens[a].Type][n]
                  /\ parseErr.got = NextToken(tokens, a + n).Type
                  /\ parseErr.got # parseErr.want
                  /\ \A i \in 1..(n - 1) :
                        NextToken(tokens, a + i).Type = ArgTable[tokens[a].Type][i]
        /\ parseErr = NilErr =>
              \A a \in 1..Len(tokens) :
                  tokens[a].Type \in ActionTypes => ArgsMatch(tokens, a)
        /\ (Len(tokens) >= 2 /\ tokens[1].Type = RUN /\ tokens[2].Type = IDENT) =>
              parseErr = [msg |-> "expected", want |-> STRINGT, argument |-> 1,
                          got |-> IDENT]

C22_Witness ==
    /\ pc = "parse_failed"
    /\ Kinds(tokens) = <<SET, IDENT, IDENT>>
    /\ parseErr = [msg |-> "expected", want |-> STRINGT, argument |-> 2, got |-> IDENT]

\* The number of argument tokens the actions of a stream take.
RECURSIVE ArgumentCount(_)
ArgumentCount(toks) ==
    IF toks = <<>> THEN 0
    ELSE (IF Head(toks).Type \in ActionTypes THEN Len(ArgTable[Head(toks).Type]) ELSE 0)
         + ArgumentCount(Tail(toks))

\* C23: a token in action position whose kind is neither a keyword nor EOF
\* makes Parse fail: a bare IDENT gives 'found unexpected identifier' and a
\* bare STRING 'found unexpected string', both with the token's literal, an
\* ILLEGAL token gives the lexer error with its literal message, and any
\* other kind gives 'unhandled statement'.  The error is reported for the
\* last token pulled; such a token at the head of the stream always fails;
\* and a stream parsed without error holds only keywords and the IDENT and
\* STRING tokens that are the arguments of its actions.
C23_UnexpectedToken ==
    pc # "start" =>
        /\ parseErr.msg = "found unexpected identifier" =>
              /\ tokens[offset].Type = IDENT
              /\ parseErr.literal = tokens[offset].Literal
        /\ parseErr.msg = "found unexpected string" =>
              /\ tokens[offset].Type = STRINGT
              /\ parseErr.literal = tokens[offset].Literal
        /\ parseErr.msg = "error received from the lexer" =>
              /\ tokens[offset].Type = ILLEGAL
              /\ parseErr.literal = tokens[offset].Literal
        /\ parseErr.msg = "unhandled statement" =>
              /\ tokens[offset].Type \notin keywords \cup {EOF, IDENT, STRINGT, ILLEGAL}
              /\ parseErr.literal = tokens[offset]
        /\ tokens # <<>> =>
              /\ tokens[1].Type = IDENT =>
                    parseErr = [msg |-> "found unexpected identifier",
                                literal |-> tokens[1].Literal]
              /\ tokens[1].Type = STRINGT =>
                    parseErr = [msg |-> "found unexpected string",
                                literal |-> tokens[1].Literal]
              /\ tokens[1].Type = ILLEGAL =>
                    parseErr = [msg |-> "error received from the lexer",
                                literal |-> tokens[1].Literal]
              /\ tokens[1].Type \notin keywords \cup {IDENT, STRINGT, ILLEGAL} =>
                    parseErr = [msg |-> "unhandled statement", literal |-> tokens[1]]
        /\ parseErr = NilErr =>
              /\ \A p \in 1..Len(tokens) : tokens[p].Type \in keywords \cup {IDENT, STRINGT}
              /\ Cardinality({p \in 1..Len(tokens) : tokens[p].Type \in {IDENT, STRINGT}})
                    = ArgumentCount(tokens)

C23_Witness ==
    /\ pc = "parse_failed"
    /\ Kinds(tokens) = <<RUN, STRINGT, STRINGT>>
    /\ Len(statements) = 1
    /\ parseErr = [msg |-> "found unexpected string", literal |-> tokens[3].Literal]

\* C24: for every stream parsed without error, the list holds exactly one
\* statement per action token of the stream and none for a Sudo token, in
\* the order of the action tokens: the i-th statement carries the i-th
\* action token and the tokens that follow it as its arguments.
C24_OneStatementPerAction ==
    (pc # "start" /\ parseErr = NilErr) =>
        /\ Len(statements) = ActionCount(tokens)
        /\ \A i \in 1..Len(statements) :
              LET a == ActionPos(tokens, i)
              IN  /\ statements[i].Token = tokens[a]
                  /\ statements[i].Arguments
                        = SubSeq(tokens, a + 1, a + Len(ArgTable[tokens[a].Type]))

C24_Witness ==
    /\ pc = "parsed"
    /\ Kinds(tokens) = <<DEPLOYTO, IDENT, SUDO, RUN, STRINGT>>
    /\ Types(statements) = <<DEPLOYTO, RUN>>

\* The words of a text: its maximal runs of characters that are not
\* whitespace, in order.
RECURSIVE WordsFrom(_, _, _)
WordsFrom(s, i, word) ==
    IF i > Len(s) THEN (IF word = <<>> THEN <<>> ELSE <<word>>)
    ELSE IF s[i] \in {" ", "\t", "\n", "\r"}
    THEN (IF word = <<>> THEN <<>> ELSE <<word>>) \o WordsFrom(s, i + 1, <<>>)
    ELSE WordsFrom(s, i + 1, Append(word, s[i]))

WordsOf(s) == WordsFrom(s, 1, <<>>)

\* A word that starts neither a string nor a comment.
IsBare(word) == word[1] \notin {"\"", "#"}

\* The keyword kind of a word that is exactly one of the seven keywords, and
\* IDENT for every other word.
StatedKind(word) ==
    CASE word = <<"C", "o", "p", "y", "F", "i", "l", "e">> -> "CopyFile"
      [] word = <<"C", "o", "p", "y", "T", "e", "m", "p", "l", "a", "t", "e">> -> "CopyTemplate"
      [] word = <<"D", "e", "p", "l", "o", "y", "T", "o">> -> "DeployTo"
      [] word = <<"I", "f", "C", "h", "a", "n", "g", "e", "d">> -> "IfChanged"
      [] word = <<"R", "u", "n">> -> "Run"
      [] word = <<"S", "e", "t">> -> "Set"
      [] word = <<"S", "u", "d", "o">> -> "Sudo"
      [] OTHER -> "IDENT"

Lexed == pc # "lex"

\* C25: a bare run of characters other than whitespace is one token, whose
\* literal is the run and whose kind is the keyword kind if the run is
\* exactly (case-sensitively) one of the seven keywords and IDENT otherwise:
\* a bare word at the start of the text gives that token first, a text made
\* of bare words only gives one such token per word, and
\* Set greeting "Hello, world!" gives Set, IDENT greeting, STRING
\* Hello, world! and then EOF.
C25_WordsAreClassified ==
    Lexed =>
        LET words == WordsOf(characters)
        IN  /\ (words # <<>> /\ IsBare(words[1])) =>
                  /\ tokens # <<>>
                  /\ tokens[1] = Token(StatedKind(words[1]), words[1])
            /\ (\A i \in 1..Len(words) : IsBare(words[i])) =>
                  tokens = [i \in 1..Len(words) |-> Token(StatedKind(words[i]), words[i])]
            /\ words = << <<"S", "e", "t">>,
                          <<"g", "r", "e", "e", "t", "i", "n", "g">>,
                          <<"\"", "H", "e", "l", "l", "o", ",">>,
                          <<"w", "o", "r", "l", "d", "!", "\"">> >> =>
                  tokens = << Token(SET, <<"S", "e", "t">>),
                              Token(IDENT, <<"g", "r", "e", "e", "t", "i", "n", "g">>),
                              Token(STRINGT, <<"H", "e", "l", "l", "o", ",", " ",
                                               "w", "o", "r", "l", "d", "!">>) >>

C25_Witness ==
    /\ Lexed
    /\ characters = <<"R", "u", "n", "n", "\n", "R", "u", "n">>
    /\ tokens = << Token(IDENT, <<"R", "u", "n", "n">>), Token(RUN, <<"R", "u", "n">>) >>

\* The tokens repeated calls of NextToken return for a text, up to the EOF.
RECURSIVE LexAllFrom(_, _)
LexAllFrom(cs, l) ==
    LET r == LexerNextToken(cs, l)
    IN  IF r.tok.Type = EOF THEN <<>> ELSE <<r.tok>> \o LexAllFrom(cs, r.l)

LexAll(cs) == LexAllFrom(cs, New(cs))

\* The end of the line that starts at i: its newline, or the end of the text.
LineEnd(s, i) == IF IndexFrom(s, "\n", i) = 0 THEN Len(s) ELSE IndexFrom(s, "\n", i)

\* A text without its lines that start with "#".
RECURSIVE WithoutHashLines(_, _)
WithoutHashLines(s, i) ==
    IF i > Len(s) THEN <<>>
    ELSE IF s[i] = "#" THEN WithoutHashLines(s, LineEnd(s, i) + 1)
    ELSE SubSeq(s, i, LineEnd(s, i)) \o WithoutHashLines(s, LineEnd(s, i) + 1)

\* C26 as stated: the tokens of a text are the tokens of the text without
\* its lines that start with "#" (a leading "#!" line among them).
C26_AsStated ==
    Lexed => tokens = LexAll(WithoutHashLines(characters, 1))

\* Where a character stands: between tokens, in a bare word, in a comment,
\* in a string, or behind a backslash in a string.
ModeAfter(mode, c) ==
    CASE mode = "between" ->
             IF c \in {" ", "\t", "\n", "\r"} THEN "between"
             ELSE IF c = "\"" THEN "string"
             ELSE IF c = "#" THEN "comment"
             ELSE "word"
      [] mode = "word" -> IF c \in {" ", "\t", "\n", "\r"} THEN "between" ELSE "word"
      [] mode = "comment" -> IF c = "\n" THEN "between" ELSE "comment"
      [] mode = "string" ->
             IF c = "\"" THEN "between"
             ELSE IF c = "\\" THEN "escape"
             ELSE "string"
      [] mode = "escape" -> "string"

RECURSIVE ModeAt(_, _)
\* Where the i-th character of a text stands.
ModeAt(s, i) == IF i = 1 THEN "between" ELSE ModeAfter(ModeAt(s, i - 1), s[i - 1])

\* A text without its lines that start with "#" outside a string.
RECURSIVE WithoutCommentLines(_, _)
WithoutCommentLines(s, i) ==
    IF i > Len(s) THEN <<>>
    ELSE IF s[i] = "#" /\ ModeAt(s, i) = "between"
    THEN WithoutCommentLines(s, LineEnd(s, i) + 1)
    ELSE SubSeq(s, i, LineEnd(s, i)) \o WithoutCommentLines(s, LineEnd(s, i) + 1)

\* C26, amended: the tokens of a text are the tokens of the text without
\* its lines that start with "#" outside a string literal (a leading "#!"
\* line among them); a line that starts with "#" inside a string literal
\* that spans lines belongs to the string.
C26_CommentLinesGiveNoTokens ==
    Lexed => tokens = LexAll(WithoutCommentLines(characters, 1))

C26_Witness ==
    /\ Lexed
    /\ Len(characters) > 6
    /\ SubSeq(characters, 1, 6) = <<"#", "!", "/", "u", "\n", "#">>
    /\ Kinds(tokens) = <<SET, IDENT, STRINGT>>

\* The escapes of a string literal and the characters they stand for.
StatedEscapes ==
    [c \in {"n", "r", "t", "\"", "\\"} |->
        CASE c = "n" -> "\n"
          [] c = "r" -> "\r"
          [] c = "t" -> "\t"
          [] c = "\"" -> "\""
          [] c = "\\" -> "\\"]

\* The contents of the string literal whose first character is the i-th
\* of a text: "closed" with the contents and the place after the closing
\* quote, "open" when the text ends first, "other" on any other escape.
RECURSIVE StatedString(_, _, _)
StatedString(s, i, out) ==
    IF i > Len(s) THEN [end |-> "open", out |-> out, next |-> i]
    ELSE IF s[i] = "\"" THEN [end |-> "closed", out |-> out, next |-> i + 1]
    ELSE IF s[i] # "\\" THEN StatedString(s, i + 1, Append(out, s[i]))
    ELSE IF i = Len(s) THEN [end |-> "open", out |-> out, next |-> i]
    ELSE IF s[i + 1] = "\n" THEN StatedString(s, i + 2, out)
    ELSE IF s[i + 1] \in DOMAIN StatedEscapes
    THEN StatedString(s, i + 2, Append(out, StatedEscapes[s[i + 1]]))
    ELSE [end |-> "other", out |-> out, next |-> i]

\* The contents of the closed string literals of a text, in order, from
\* the i-th character on; ok is FALSE when one has another escape.
RECURSIVE StatedStrings(_, _)
StatedStrings(s, i) ==
    IF i > Len(s) THEN [ok |-> TRUE, strings |-> <<>>]
    ELSE IF ~(s[i] = "\"" /\ ModeAt(s, i) = "between") THEN StatedStrings(s, i + 1)
    ELSE LET r == StatedString(s, i + 1, <<>>)
         IN  CASE r.end = "open" -> [ok |-> TRUE, strings |-> <<>>]
               [] r.end = "other" -> [ok |-> FALSE, strings |-> <<>>]
               [] r.end = "closed" ->
                      [ok |-> StatedStrings(s, r.next).ok,
                       strings |-> <<r.out>> \o StatedStrings(s, r.next).strings]

IsStringToken(tok) == tok.Type = STRINGT

StringLiterals(toks) ==
    [i \in 1..Len(SelectSeq(toks, IsStringToken)) |-> SelectSeq(toks, IsStringToken)[i].Literal]

\* C27: in a double-quoted string \n, \r, \t, \" and \\ stand for newline,
\* carriage return, tab, quote and backslash, a backslash directly before
\* a newline stands for nothing, and the string ends at the first quote
\* that is not escaped: the STRING tokens of a text carry these contents.
C27_StringEscapes ==
    (Lexed /\ StatedStrings(characters, 1).ok)
        => StringLiterals(tokens) = StatedStrings(characters, 1).strings

C27_Witness ==
    /\ Lexed
    /\ StringLiterals(tokens) =
           << <<"S", "\n", "\r", "\\">>, <<"K", "\n", "\t", "\n">>,
              <<"I", " ", "\"", "q", "\"", ".">> >>

\* A text whose last string literal has no closing quote.
EndsInString(s) == ModeAt(s, Len(s) + 1) \in {"string", "escape"}

\* C28: a string literal that is still open at the end of the text gives an
\* ILLEGAL token with the literal "unterminated string", the call of
\* NextToken after it returns EOF, and Parse fails on the token stream, so
\* that the run ends before an evaluator exists; in action position the
\* error is the one received from the lexer.
C28_State ==
    /\ (EndsInString(characters) /\ Lexed) =>
          /\ tokens # <<>>
          /\ tokens[Len(tokens)] =
                 Token(ILLEGAL, <<"u", "n", "t", "e", "r", "m", "i", "n", "a", "t", "e",
                                  "d", " ", "s", "t", "r", "i", "n", "g">>)
          /\ \A p \in 1..(Len(tokens) - 1) : tokens[p].Type # ILLEGAL
    /\ (EndsInString(characters) /\ pc \notin {"lex", "start"}) =>
          /\ pc = "parse_failed"
          /\ parseErr # NilErr
          /\ Len(tokens) = 1 =>
                parseErr = [msg |-> "error received from the lexer",
                            literal |-> tokens[1].Literal]
          /\ Program = <<>>
          /\ calls = <<>>
    /\ (Lexed /\ ~EndsInString(characters)) =>
          \A p \in 1..Len(tokens) : tokens[p].Type # ILLEGAL

C28_Step ==
    (pc = "lex" /\ tokens # <<>> /\ tokens[Len(tokens)].Type = ILLEGAL)
        => (pc' = "start" /\ tokens' = tokens)

C28_UnterminatedString == []C28_State /\ [][C28_Step]_vars

C28_Witness ==
    /\ pc = "parse_failed"
    /\ EndsInString(characters)
    /\ Kinds(tokens) = <<RUN, ILLEGAL>>
    /\ tokens[2].Literal = Unterminated

\* C29: an IfChanged statement that Evaluator.Run reaches without a
\* connection ends the run with an error: the step fails, and no later
\* statement is reached.
C29_Step ==
    (AtType({IFCHANGED}) /\ Connection = NilConn)
        => (pc' = "run_failed" /\ runErr' # Nil /\ ip' = ip)

C29_IfChangedNeedsConnection == [][C29_Step]_vars

\* C30: when Evaluator.Run has returned an error and the evaluator holds a
\* connection, the last call made on the remote side is the close of that
\* connection.
C30_FailureClosesConnection ==
    (pc = "run_failed" /\ Connection # NilConn)
        => (calls # <<>> /\ calls[Len(calls)].op = "close")

\* C31: the changed flag a copy statement stores is true exactly when one of
\* the files it copied was found to need replacing (its upload was begun),
\* wherever that file stands among the files of the statement.
C31_CopyStep ==
    (AtType({COPYFILE, COPYTEMPLATE}) /\ Connection # NilConn /\ ~NOP /\ pc' = "loop")
        => (Changed' <=> \E i \in (Len(calls) + 1)..Len(calls') : calls'[i].op = "upload")

C31_AnyFileChanged == [][C31_CopyStep]_vars

\* The first of two files was replaced, the second was not: the flag is set.
C31_Witness ==
    /\ pc = "loop"
    /\ ip = 2
    /\ Changed
    /\ Ops(calls) = <<"connect", "download", "upload", "download">>
    /\ calls[2].path = <<"d", "/", "a">>
    /\ calls[4].path = <<"d", "/", "b">>
    /\ calls[4].res = "ok"

\* C32: no scratch file of a copy (the rendered template, the downloaded
\* remote copy) is left when copyFile has ended, on whatever path: after a
\* failed local fingerprint, a failed remote fingerprint, a failed upload.
C32_ScratchFilesRemoved == scratch = {}

\* C33: a Set statement whose name is in the read-only map changes neither
\* map; a Set statement for any other name stores the expanded value in the
\* mutable map and leaves the read-only map alone.
C33_Step ==
    AtType({SET}) =>
        LET key == Program[ip].Arguments[1].Literal
            val == Expand(Program[ip].Arguments[2].Literal)
        IN  /\ ROVariables' = ROVariables
            /\ IF key \in DOMAIN ROVariables
               THEN Variables' = Variables
               ELSE Variables' = MapSet(Variables, key, val)

C33_SetOnReadOnlyIsDropped == [][C33_Step]_vars

\* The first argument position after the action at p whose token has not
\* the kind of the table, or 0.
FirstMismatch(toks, p) ==
    LET bad == {i \in 1..Len(ArgTable[toks[p].Type]) :
                  NextToken(toks, p + i).Type # ArgTable[toks[p].Type][i]}
    IN  IF bad = {} THEN 0 ELSE CHOOSE i \in bad : \A j \in bad : i <= j

\* The position of the token that ends parsing when the token at p stands
\* in action position: the first token that is an error, or the EOF.
RECURSIVE StopsAt(_, _)
StopsAt(toks, p) ==
    LET type == NextToken(toks, p).Type
    IN  IF type = SUDO THEN StopsAt(toks, p + 1)
        ELSE IF type \notin ActionTypes THEN p
        ELSE IF FirstMismatch(toks, p) # 0 THEN p + FirstMismatch(toks, p)
        ELSE StopsAt(toks, p + Len(ArgTable[type]) + 1)

\* C34: Parse stops at the first error: the last token it pulls from the
\* source is the first one that is an error, in action position or as an
\* argument of the wrong kind; no token behind it is pulled and no statement
\* is skipped.  Without an error it pulls every token and the EOF.
C34_StopsAtFirstError ==
    pc \in {"parse_failed", "parsed"} =>
        /\ offset = StopsAt(tokens, 1)
        /\ parseErr = NilErr => offset = Len(tokens) + 1
        /\ offset <= Len(tokens) => parseErr # NilErr

C34_Witness ==
    /\ pc = "parse_failed"
    /\ Kinds(tokens) = <<SET, IDENT, IDENT, RUN>>
    /\ offset = 3

\* C35: the tokenizer terminates on every text: a call of NextToken that
\* does not return EOF moves the lexer forward by at least one character,
\* so that EOF is returned after at most one call more than the text has
\* characters; and after an EOF every later call returns EOF with an empty
\* literal.
C35_State ==
    pc = "calls" =>
        /\ Len(tokens) > Len(characters) => \E i \in 1..Len(tokens) : tokens[i].Type = EOF
        /\ \A i \in 1..Len(tokens) : \A j \in i..Len(tokens) :
              tokens[i].Type = EOF => tokens[j] = Token(EOF, <<>>)

C35_Step ==
    (pc = "calls" /\ tokens' # tokens /\ tokens'[Len(tokens')].Type # EOF)
        => position' > position

C35_TokenizerTerminates == []C35_State /\ [][C35_Step]_vars

\* C36: when Evaluator.Run has gone through all statements without an
\* error and holds a connection, it has closed the connection once, and the
\* close is the last call made: it comes after the calls of the last
\* statement and no exec, upload or download follows it.  Without a
\* connection nothing is closed.
C36_ClosedOnceAtTheEnd ==
    /\ \A i \in 1..Len(calls) : calls[i].op = "close" => (i = Len(calls) /\ pc = "finished")
    /\ pc = "finished" =>
          IF Connection # NilConn
          THEN /\ calls # <<>>
               /\ calls[Len(calls)].op = "close"
               /\ Cardinality({i \in 1..Len(calls) : calls[i].op = "close"}) = 1
               /\ ip = Len(Program) + 1
          ELSE \A i \in 1..Len(calls) : calls[i].op # "close"

C36_Witness ==
    /\ pc = "finished"
    /\ Connection # NilConn
    /\ Ops(calls) = <<"connect", "exec", "download", "upload", "close">>

\* C37: a copy statement whose source matches no local file ends the
\* deployment: the run fails or the process exits at that statement, and no
\* later statement is reached.
C37_Step ==
    (/\ AtType({COPYFILE, COPYTEMPLATE})
     /\ Connection # NilConn
     /\ ~NOP
     /\ \A p \in DOMAIN LocalFiles : ~Matches(Expand(Program[ip].Arguments[1].Literal), p))
        => (pc' \in {"run_failed", "exited"} /\ ip' = ip)

C37_MissingFileIsFatal == [][C37_Step]_vars

\* C38: every connect call that authenticates with a key file, for -target
\* or for a DeployTo statement, is made with the identity SetIdentity
\* configures: the -identity flag or the default ~/.ssh/id_rsa, never the
\* empty string.
C38_IdentityBeforeConnect ==
    \A i \in 1..Len(calls) :
        (calls[i].op = "connect" /\ calls[i].auth[1] = "keyfile")
            => (calls[i].auth[2] # <<>> /\ calls[i].auth[2] = SetIdentity(flags.identity))

\* C39: a bare word that is spelled like a keyword is never an argument.  A
\* recipe that starts with an action followed by such a word (directly, or
\* as second argument behind a proper first one) fails with the argument
\* error that names the expected kind and the keyword found; and no
\* statement of a recipe that parses carries an IDENT argument spelled like
\* a keyword.
C39_KeywordIsNoArgument ==
    (pc \notin {"lex", "calls", "start"} /\ characters # <<>>) =>
        LET words == WordsOf(characters)
        IN  /\ parseErr = NilErr =>
                  \A i \in 1..Len(statements) : \A j \in 1..Len(statements[i].Arguments) :
                      statements[i].Arguments[j].Type = IDENT
                          => StatedKind(statements[i].Arguments[j].Literal) = IDENT
            /\ (/\ Len(words) >= 2
                /\ IsBare(words[1]) /\ IsBare(words[2])
                /\ StatedKind(words[1]) \in ActionTypes
                /\ StatedKind(words[2]) # IDENT) =>
                  parseErr = [msg |-> "expected", want |-> ArgTable[StatedKind(words[1])][1],
                              argument |-> 1, got |-> StatedKind(words[2])]
            /\ (/\ Len(words) >= 3
                /\ IsBare(words[1]) /\ IsBare(words[2]) /\ IsBare(words[3])
                /\ StatedKind(words[1]) \in {SET, COPYFILE, COPYTEMPLATE}
                /\ StatedKind(words[2]) = IDENT
                /\ StatedKind(words[3]) # IDENT) =>
                  parseErr = [msg |-> "expected", want |-> ArgTable[StatedKind(words[1])][2],
                              argument |-> 2, got |-> StatedKind(words[3])]

C39_Witness ==
    /\ pc = "parse_failed"
    /\ WordsOf(characters) = << <<"C", "o", "p", "y", "F", "i", "l", "e">>,
                                <<"S", "u", "d", "o">>, <<"/", "t", "m", "p", "/", "x">> >>
    /\ parseErr = [msg |-> "expected", want |-> IDENT, argument |-> 1, got |-> SUDO]

\* C40: in dry-run mode the changed flag stays false through the whole run,
\* and every IfChanged statement is skipped: the loop goes on to the next
\* statement, nothing is reported and no call is made, whatever copy
\* statements stand before it.
C40_Step ==
    (AtType({IFCHANGED}) /\ NOP)
        => (ip' = ip + 1 /\ pc' = pc /\ printed' = printed /\ calls' = calls /\ runErr' = runErr)

C40_DryRunNeverChanged == [](NOP => ~Changed) /\ [][C40_Step]_vars

C40_Witness ==
    /\ NOP
    /\ pc = "loop"
    /\ ip = 3
    /\ Types(Program) = <<COPYFILE, IFCHANGED>>
    /\ Connection # NilConn
    /\ ~Changed
    /\ Ops(calls) = <<"connect">>
    /\ printed = <<>>

====
